---- MODULE Spec2Model ----
(***************************************************************************)
(* Governance kernel: state encoder, six invariants, verifier, handler     *)
(* registry, conflict detector and hash-chained audit logger.              *)
(*                                                                         *)
(* Python values are modelled as follows.  A dict is a function whose      *)
(* DOMAIN is the set of keys present (an absent key is not in DOMAIN).     *)
(* Text is a TLA+ string, handled with Len, SubSeq and \o.  A list is a    *)
(* sequence.  Python's None is the value None below; it only occurs where  *)
(* text is expected.  An operation that raises returns Raise.              *)
(***************************************************************************)
EXTENDS Integers, Sequences, FiniteSets, TLC

VARIABLES
    invariants,     \* GovernanceKernel.invariants: the names, in list order
    stats,          \* GovernanceKernel.stats
    logs,           \* AuditLogger.logs
    previous_hash,  \* AuditLogger.previous_hash
    clock,          \* the wall clock read by datetime.utcnow()
    uuid_counter,   \* the number of audit ids drawn so far from uuid4()
    enable_audit,   \* GovernanceKernel.enable_audit
    strict_mode,    \* GovernanceKernel.strict_mode
    call,           \* the caller: idle, or holding the outcome of the call it made
    tampered,       \* the entry and field modified from outside the logger, if any
    log_file,       \* AuditLogger.log_file: a path, or None
    file,           \* the lines appended so far to the file at that path
    threads,        \* the concurrent callers: where each is in its call, and its locals
    lock            \* the callers' own lock around their calls: unused, free or held

vars == <<invariants, stats, logs, previous_hash, clock, uuid_counter, enable_audit,
          strict_mode, call, tampered, log_file, file, threads, lock>>

(***************************************************************************)
(* Bounds of the model.                                                    *)
(***************************************************************************)
MaxLog == 2         \* evaluations in one run of the kernel
MaxCand == 2        \* candidate actions in one batch
MaxChain == 3       \* entries of the audit chain in one run of the logger
MaxViol == 3        \* length of a violations list handed to the registry
MaxAlias == 2       \* entries logged in a run in which the caller changes its objects
MaxList == 2        \* length to which the caller grows a list of its own

(***************************************************************************)
(* Python values.                                                          *)
(***************************************************************************)
None == "None"
Raise == [raised |-> TRUE]
Raised(x) == x = Raise
EmptyDict == <<>>

\* dict.get(key, default)
Get(d, k, default) == IF k \in DOMAIN d THEN d[k] ELSE default

\* One optional key of a dict: absent, or present with a value of V.
Opt(k, V) == {EmptyDict} \cup {[x \in {k} |-> v] : v \in V}

\* bool(value) of a text or None
Truthy(v) == v # None /\ v # ""

(***************************************************************************)
(* Text.                                                                   *)
(***************************************************************************)
UpperCase == "ABCDEFGHIJKLMNOPQRSTUVWXYZ"
LowerCase == "abcdefghijklmnopqrstuvwxyz"
Digits == "0123456789"

Char(s, i) == SubSeq(s, i, i)
IndexOf(c, alphabet) ==
    IF \E i \in 1..Len(alphabet) : Char(alphabet, i) = c
    THEN CHOOSE i \in 1..Len(alphabet) : Char(alphabet, i) = c
    ELSE 0

\* str.lower()
UpperChars == {Char(UpperCase, i) : i \in 1..Len(UpperCase)}
ToLower == [c \in UpperChars |-> Char(LowerCase, IndexOf(c, UpperCase))]

LowerChar(c) == IF c \in UpperChars THEN ToLower[c] ELSE c

RECURSIVE Lower(_)
Lower(s) ==
    IF Len(s) = 0 THEN "" ELSE LowerChar(Char(s, 1)) \o Lower(SubSeq(s, 2, Len(s)))

\* sub in s
Contains(s, sub) ==
    \E i \in 1..(Len(s) - Len(sub) + 1) : SubSeq(s, i, i + Len(sub) - 1) = sub

\* s.startswith(prefix)
StartsWith(s, prefix) ==
    Len(s) >= Len(prefix) /\ SubSeq(s, 1, Len(prefix)) = prefix

\* s.split('_')[-1]
RECURSIVE LastSegment(_)
LastSegment(s) ==
    IF Len(s) = 0 \/ Char(s, Len(s)) = "_" THEN ""
    ELSE LastSegment(SubSeq(s, 1, Len(s) - 1)) \o Char(s, Len(s))

RECURSIVE DigitsValue(_)
DigitsValue(s) ==
    IF Len(s) = 0 THEN 0
    ELSE 10 * DigitsValue(SubSeq(s, 1, Len(s) - 1)) + (IndexOf(Char(s, Len(s)), Digits) - 1)

AllDigits(s) == Len(s) > 0 /\ \A i \in 1..Len(s) : IndexOf(Char(s, i), Digits) # 0

\* int(s): an optional sign and decimal digits; anything else is a ValueError
\* (the blanks around the digits that int() also accepts occur in no input)
Signed(s) == Len(s) > 0 /\ Char(s, 1) \in {"+", "-"}
Unsigned(s) == IF Signed(s) THEN SubSeq(s, 2, Len(s)) ELSE s
ParseInt(s) ==
    IF ~AllDigits(Unsigned(s)) THEN Raise
    ELSE [raised |-> FALSE,
          value  |-> IF Signed(s) /\ Char(s, 1) = "-" THEN 0 - DigitsValue(Unsigned(s))
                     ELSE DigitsValue(Unsigned(s))]

\* ', '.join(items)
RECURSIVE Join(_)
Join(items) ==
    IF Len(items) = 0 THEN ""
    ELSE IF Len(items) = 1 THEN items[1]
    ELSE items[1] \o ", " \o Join(Tail(items))

\* str(list of text): ['a', 'b']
ReprList(items) == "[" \o Join([i \in 1..Len(items) |-> "'" \o items[i] \o "'"]) \o "]"

\* set(list)
Range(seq) == {seq[i] : i \in 1..Len(seq)}

(***************************************************************************)
(* State encoder.                                                          *)
(***************************************************************************)
binding_types == <<"execute", "commit", "sign", "approve", "transfer", "deploy">>

\* StateEncoder._is_binding_action; None has no lower()
IsBindingAction(action) ==
    IF Get(action, "type", "") = None THEN Raise
    ELSE [raised |-> FALSE,
          value  |-> (\E i \in 1..Len(binding_types) :
                          Contains(Lower(Get(action, "type", "")), binding_types[i]))
                     \/ Get(action, "is_binding", FALSE)]

\* StateEncoder._has_human_authority; None has no startswith()
HasHumanAuthority(context) ==
    IF \/ Get(context, "consequence_bearer", "") = None
       \/ Get(context, "decision_maker", "") = None
    THEN Raise
    ELSE [raised |-> FALSE,
          value  |-> \/ StartsWith(Get(context, "consequence_bearer", ""), "human")
                     \/ StartsWith(Get(context, "decision_maker", ""), "human")
                     \/ Get(context, "human_in_authority_chain", FALSE)
                     \/ Get(context, "human_signature", None) # None]

\* The time-limit branch of _action_violates_constraint, limit = int(suffix)
ExceedsLimit(action, limit) ==
    IF Raised(limit) THEN Raise
    ELSE [raised |-> FALSE,
          value  |-> Get(action, "estimated_time_minutes", 0) > limit.value]

\* StateEncoder._action_violates_constraint
ActionViolatesConstraint(action, constraint) ==
    IF constraint = "no_residential_hazmat"
    THEN [raised |-> FALSE,
          value  |-> Get(action, "passes_through_residential", FALSE)
                     /\ Get(action, "cargo_is_hazmat", FALSE)]
    ELSE IF StartsWith(constraint, "time_limit_")
    THEN ExceedsLimit(action, ParseInt(LastSegment(constraint)))
    ELSE [raised |-> FALSE, value |-> Get(action, "violates_" \o constraint, FALSE)]

\* The loop of _check_constraint_violations: the hard constraints the
\* action violates, in their order
ViolatedAmong(action, hard_constraints) ==
    IF \E i \in 1..Len(hard_constraints) :
           Raised(ActionViolatesConstraint(action, hard_constraints[i]))
    THEN Raise
    ELSE [raised |-> FALSE,
          value  |-> SelectSeq(hard_constraints,
                         LAMBDA c : ActionViolatesConstraint(action, c).value)]

\* StateEncoder._check_constraint_violations, given the outcome of the loop
DeclaredAnd(action, found) ==
    IF Raised(found) THEN Raise
    ELSE [raised |-> FALSE,
          value  |-> Get(action, "violates_constraints", <<>>) \o found.value]

CheckConstraintViolations(context, action) ==
    DeclaredAnd(action, ViolatedAmong(action, Get(context, "hard_constraints", <<>>)))

\* action.get('affects_group') or context.get('affects_group')
AffectsGroup(context, action) ==
    IF Truthy(Get(action, "affects_group", None))
    THEN action["affects_group"]
    ELSE Get(context, "affects_group", None)

\* The state built by StateEncoder.encode from the outcomes of its helpers
EncodedState(context, action, binding, human, violated) ==
    IF Raised(binding) \/ Raised(human) \/ Raised(violated) THEN Raise
    ELSE [authority_level      |-> Get(context, "authority_level", "none"),
          requires_authority   |-> Get(action, "requires_authority", "none"),
          is_binding_action    |-> binding.value,
          human_in_authority_chain |-> human.value,
          consequence_bearer   |-> Get(context, "consequence_bearer", None),
          makes_decision       |-> Get(action, "makes_decision", FALSE),
          hard_constraints     |-> Get(context, "hard_constraints", <<>>),
          violated_constraints |-> violated.value,
          makes_interpretation |-> Get(action, "makes_interpretation", FALSE),
          interpretation_authority |-> Get(context, "interpretation_authority", FALSE),
          affects_group        |-> AffectsGroup(context, action),
          decision_maker       |-> Get(context, "decision_maker", None),
          delegated_authority_from_affected |->
              Get(context, "delegated_authority_from_affected", FALSE)]

\* StateEncoder.encode
Encode(context, action) ==
    EncodedState(context, action, IsBindingAction(action), HasHumanAuthority(context),
                 CheckConstraintViolations(context, action))

(***************************************************************************)
(* The six invariants.                                                     *)
(***************************************************************************)
\* The table of AIT1_Invariant.check, read with authority_levels.get(level, 0)
authority_levels(level) ==
    CASE level = "none"       -> 0
      [] level = "advisory"   -> 1
      [] level = "binding"    -> 2
      [] level = "autonomous" -> 3
      [] OTHER                -> 0

\* A faulty variant: the granted level must exceed the required one
AIT1_check_strict(state) ==
    authority_levels(state.authority_level) > authority_levels(state.requires_authority)

\* AIT1_Invariant.check
AIT1_check(state) ==
    authority_levels(state.authority_level) >= authority_levels(state.requires_authority)

\* A faulty variant: a named consequence bearer passes for a human in the chain
BG1_check_bearer(state) ==
    IF state.is_binding_action
    THEN state.human_in_authority_chain \/ state.consequence_bearer # None
    ELSE TRUE

\* BG1_Invariant.check
BG1_check(state) ==
    IF state.is_binding_action THEN state.human_in_authority_chain ELSE TRUE

\* A faulty variant: any violated constraint counts, hard or not
GI1_check_any(state) == Range(state.violated_constraints) = {}

\* GI1_Invariant.check
GI1_check(state) ==
    Range(state.hard_constraints) \cap Range(state.violated_constraints) = {}

\* MAP1_Invariant.check
MAP1_check(state) ==
    IF state.makes_interpretation THEN state.interpretation_authority ELSE TRUE

\* CMP1_Invariant.check
CMP1_check(state) ==
    IF state.makes_decision THEN state.consequence_bearer # None ELSE TRUE

\* EXP1_Invariant.check
EXP1_check(state) ==
    IF Truthy(state.affects_group) /\ Truthy(state.decision_maker)
    THEN state.affects_group = state.decision_maker
         \/ state.delegated_authority_from_affected
    ELSE TRUE

\* invariant.check(state) of the invariant object of that name
InvariantCheck(name, state) ==
    CASE name = "AIT-1" -> AIT1_check(state)
      [] name = "BG-1"  -> BG1_check(state)
      [] name = "GI-1"  -> GI1_check(state)
      [] name = "MAP-1" -> MAP1_check(state)
      [] name = "CMP-1" -> CMP1_check(state)
      [] name = "EXP-1" -> EXP1_check(state)

\* GovernanceKernel._default_invariants
default_invariants == <<"AIT-1", "BG-1", "GI-1", "MAP-1", "CMP-1", "EXP-1">>

\* Verifier.check: the loop over the invariants, appending the name of each
\* one whose check fails
RECURSIVE Verifier_check(_, _)
Verifier_check(state, invs) ==
    IF Len(invs) = 0 THEN <<>>
    ELSE (IF ~InvariantCheck(Head(invs), state) THEN <<Head(invs)>> ELSE <<>>)
         \o Verifier_check(state, Tail(invs))

\* A faulty variant: the violations are listed last invariant first
VerifierCheckReversed(state, invs) ==
    [i \in 1..Len(Verifier_check(state, invs)) |->
        Verifier_check(state, invs)[Len(Verifier_check(state, invs)) + 1 - i]]

\* The loop of GovernanceKernel.verify (the same as that of Verifier.check):
\* the violated names in the order of the invariant list
VerifierCheck(state, invs) ==
    SelectSeq(invs, LAMBDA name : ~InvariantCheck(name, state))

(***************************************************************************)
(* Handler registry.                                                       *)
(***************************************************************************)
priority_order == <<"BG-1", "GI-1", "CMP-1", "AIT-1", "EXP-1", "MAP-1">>

\* A faulty variant: the first violation listed is taken as the primary one
PrioritizeFirstListed(violations) == violations[1]

\* HandlerRegistry._prioritize_violations
PrioritizeViolations(violations) ==
    IF \E i \in 1..Len(priority_order) : priority_order[i] \in Range(violations)
    THEN priority_order[CHOOSE i \in 1..Len(priority_order) :
             /\ priority_order[i] \in Range(violations)
             /\ \A j \in 1..(i - 1) : priority_order[j] \notin Range(violations)]
    ELSE violations[1]

handle_ait1(context, action, violations) ==
    [action |-> "return_to_authority",
     reason |-> "Action requires " \o Get(action, "requires_authority", "unknown")
                \o " authority, system has " \o Get(context, "authority_level", "none"),
     required_authority_level |-> Get(action, "requires_authority", "unknown"),
     current_authority_level  |-> Get(context, "authority_level", "none"),
     suggested_action |-> "Escalate to appropriate authority level"]

handle_bg1(context, action, violations) ==
    [action |-> "require_human_authority",
     reason |-> "Binding action requires human in authority chain",
     suggested_action |-> "Obtain explicit human authorization before proceeding",
     binding_action_type |-> Get(action, "type", None)]

handle_gi1(context, action, violations) ==
    [action |-> "respect_hard_constraints",
     reason |-> "Action violates hard constraints that cannot be optimized away",
     violated_constraints |-> Get(context, "violated_constraints", <<>>),
     suggested_action |-> "Find alternative that satisfies all constraints"]

handle_map1(context, action, violations) ==
    [action |-> "obtain_interpretation_authority",
     reason |-> "Interpreting ambiguous meaning requires explicit authority",
     suggested_action |-> "Escalate interpretation to authorized decision-maker"]

handle_cmp1(context, action, violations) ==
    [action |-> "identify_consequence_bearer",
     reason |-> "Decision must trace to entity that bears consequences",
     suggested_action |-> "Explicitly identify who bears consequences of this decision"]

handle_exp1(context, action, violations) ==
    [action |-> "delegate_to_affected",
     reason |-> "Those who experience consequences must hold authority",
     affected_group |-> Get(context, "affects_group", "unknown"),
     suggested_action |-> "Obtain authorization from "
                          \o Get(context, "affects_group", "unknown")]

handle_default(context, action, violations) ==
    [action |-> "block",
     reason |-> "Unknown invariant violations: " \o ReprList(violations),
     suggested_action |-> "Review governance requirements"]

\* A faulty variant: self.handlers[primary_violation], with no default
DispatchRegistered(primary_violation, context, action, violations) ==
    CASE primary_violation = "AIT-1" -> handle_ait1(context, action, violations)
      [] primary_violation = "BG-1"  -> handle_bg1(context, action, violations)
      [] primary_violation = "GI-1"  -> handle_gi1(context, action, violations)
      [] primary_violation = "MAP-1" -> handle_map1(context, action, violations)
      [] primary_violation = "CMP-1" -> handle_cmp1(context, action, violations)
      [] primary_violation = "EXP-1" -> handle_exp1(context, action, violations)
      [] OTHER -> Raise

\* self.handlers.get(primary_violation, self._handle_default)(...)
Dispatch(primary_violation, context, action, violations) ==
    CASE primary_violation = "AIT-1" -> handle_ait1(context, action, violations)
      [] primary_violation = "BG-1"  -> handle_bg1(context, action, violations)
      [] primary_violation = "GI-1"  -> handle_gi1(context, action, violations)
      [] primary_violation = "MAP-1" -> handle_map1(context, action, violations)
      [] primary_violation = "CMP-1" -> handle_cmp1(context, action, violations)
      [] primary_violation = "EXP-1" -> handle_exp1(context, action, violations)
      [] OTHER -> handle_default(context, action, violations)

\* HandlerRegistry.handle
Handle(violations, context, action) ==
    IF violations = <<>> THEN [action |-> "allow"]
    ELSE Dispatch(PrioritizeViolations(violations), context, action, violations)

(***************************************************************************)
(* Audit logger.  A position that holds a dict or None holds NoDict for    *)
(* None; a position that holds a hash or None holds NoHash for None; an    *)
(* audit id is the index of the uuid4() draw that produced it, NoAuditId   *)
(* for None.                                                               *)
(***************************************************************************)
NoDict == <<>>
NoHash == <<>>
NoAuditId == 0
REDACTED == "[REDACTED]"

\* A faulty variant: the key is compared without lower-casing it
SanitizeCaseSensitive(data) ==
    [key \in DOMAIN data |->
        IF Contains(key, "password") \/ Contains(key, "secret")
        THEN REDACTED
        ELSE data[key]]

\* AuditLogger._sanitize
Sanitize(data) ==
    [key \in DOMAIN data |->
        IF Contains(Lower(key), "password") \/ Contains(Lower(key), "secret")
        THEN REDACTED
        ELSE data[key]]

\* json.dumps(..., sort_keys=True) of an entry without its 'hash' key: the
\* key/value pairs in sorted key order
CanonicalJson(log_entry) ==
    <<  <<"action", log_entry.action>>,
        <<"audit_id", log_entry.audit_id>>,
        <<"context", log_entry.context>>,
        <<"metadata", log_entry.metadata>>,
        <<"previous_hash", log_entry.previous_hash>>,
        <<"result", log_entry.result>>,
        <<"timestamp", log_entry.timestamp>>  >>

\* hashlib.sha256(...).hexdigest(), collision free: a digest stands for the
\* one text that produces it
Sha256(text) == <<"sha256", text>>

\* A faulty variant: the result is left out of the text that is hashed
HashWithoutResult(log_entry) ==
    Sha256(SelectSeq(CanonicalJson(log_entry), LAMBDA pair : pair[1] # "result"))

\* AuditLogger._calculate_hash
CalculateHash(log_entry) == Sha256(CanonicalJson(log_entry))

\* log_entry['hash'] = self._calculate_hash(log_entry)
WithHash(log_entry) == log_entry @@ [hash |-> CalculateHash(log_entry)]

\* The entry built by AuditLogger.log_verification, 'hash' included
LogEntry(audit_id, timestamp, context, action, result, metadata, prev) ==
    WithHash([audit_id |-> audit_id,
              timestamp |-> timestamp,
              context |-> Sanitize(context),
              action |-> Sanitize(action),
              result |-> [allowed |-> result.allowed,
                          violations |-> result.violations,
                          remediation |-> result.remediation,
                          latency_us |-> result.latency_us],
              metadata |-> metadata,
              previous_hash |-> prev])

\* A faulty variant: the logger forgets to move previous_hash forward
AppendedUnlinked(L, log_entry) ==
    [logs |-> Append(L.logs, log_entry), previous_hash |-> L.previous_hash]

\* self.previous_hash = log_entry['hash']; self.logs.append(log_entry)
Appended(L, log_entry) ==
    [logs |-> Append(L.logs, log_entry), previous_hash |-> log_entry.hash]

\* The fields that hold a datetime object in the inputs; their values are
\* written as instants of the clock
DatetimeFields == {"deadline"}

\* json.dumps(data) returns: no value of data is a datetime, for which the
\* encoder raises TypeError
JsonEncodable(data) == DOMAIN data \cap DatetimeFields = {}

\* _calculate_hash raises on the entry built from these arguments: a
\* datetime is left in the sanitized context or action or in the metadata
HashRaises(context, action, metadata) ==
    ~(/\ JsonEncodable(Sanitize(context))
      /\ JsonEncodable(Sanitize(action))
      /\ JsonEncodable(metadata))

\* AuditLogger.log_verification on logger state L = [logs, previous_hash]:
\* the new logger state.  metadata None is NoDict, which is also the empty
\* dict that 'metadata or {}' makes of it.  When _calculate_hash raises, the
\* call ends before previous_hash is written and the entry appended.
LogVerification(L, audit_id, timestamp, context, action, result, metadata) ==
    IF HashRaises(context, action, metadata) THEN L
    ELSE Appended(L, LogEntry(audit_id, timestamp, context, action, result, metadata,
                              L.previous_hash))

\* AuditLogger.verify_chain
RECURSIVE ChainFrom(_, _, _)
ChainFrom(entries, i, prev) ==
    IF i > Len(entries) THEN TRUE
    ELSE IF entries[i].previous_hash # prev THEN FALSE
    ELSE IF CalculateHash(entries[i]) # entries[i].hash THEN FALSE
    ELSE ChainFrom(entries, i + 1, entries[i].hash)

VerifyChain(entries) == ChainFrom(entries, 1, NoHash)

(***************************************************************************)
(* Kernel.                                                                 *)
(***************************************************************************)
RECURSIVE Gcd(_, _)
Gcd(a, b) == IF b = 0 THEN a ELSE Gcd(b, a % b)

\* A latency average, kept exactly as a fraction in lowest terms
Fraction(num, den) == [num |-> num \div Gcd(num, den), den |-> den \div Gcd(num, den)]

\* GovernanceKernel.__init__: the invariant list and the statistics
InitInvariants(arg) == IF arg = <<>> THEN default_invariants ELSE arg

InitStats(invs) ==
    [total_verifications |-> 0,
     allowed |-> 0,
     blocked |-> 0,
     violations_by_invariant |-> [name \in Range(invs) |-> 0],
     avg_latency_us |-> Fraction(0, 1)]

\* The kernel and its logger as one value
Kernel == [stats |-> stats, logs |-> logs, previous_hash |-> previous_hash,
           clock |-> clock, uuid_counter |-> uuid_counter]

\* (avg * (n - 1) + latency_us) / n
RunningAverage(avg, n, latency_us) ==
    Fraction(avg.num * (n - 1) + latency_us * avg.den, avg.den * n)

\* A faulty variant: only the first violation of a verification is counted
UpdateStatsFirstOnly(st, violations, allowed, latency_us) ==
    [total_verifications |-> st.total_verifications + 1,
     allowed |-> IF allowed THEN st.allowed + 1 ELSE st.allowed,
     blocked |-> IF allowed THEN st.blocked ELSE st.blocked + 1,
     violations_by_invariant |->
         [name \in DOMAIN st.violations_by_invariant |->
             IF Len(violations) > 0 /\ name = violations[1]
             THEN st.violations_by_invariant[name] + 1
             ELSE st.violations_by_invariant[name]],
     avg_latency_us |->
         RunningAverage(st.avg_latency_us, st.total_verifications + 1, latency_us)]

\* The statistics after one verification
UpdateStats(st, violations, allowed, latency_us) ==
    [total_verifications |-> st.total_verifications + 1,
     allowed |-> IF allowed THEN st.allowed + 1 ELSE st.allowed,
     blocked |-> IF allowed THEN st.blocked ELSE st.blocked + 1,
     violations_by_invariant |->
         [name \in DOMAIN st.violations_by_invariant |->
             IF name \in Range(violations)
             THEN st.violations_by_invariant[name] + 1
             ELSE st.violations_by_invariant[name]],
     avg_latency_us |->
         RunningAverage(st.avg_latency_us, st.total_verifications + 1, latency_us)]

\* A faulty variant: a lone violation is let through
DecisionLenient(violations, context, action) ==
    [allowed |-> Len(violations) <= 1,
     violations |-> violations,
     remediation |-> IF Len(violations) > 1 THEN Handle(violations, context, action)
                     ELSE NoDict]

\* A faulty variant: outside strict mode a lone violation is let through
DecisionByMode(violations, context, action) ==
    [allowed |-> IF strict_mode THEN Len(violations) = 0 ELSE Len(violations) <= 1,
     violations |-> violations,
     remediation |-> IF strict_mode \/ Len(violations) > 1
                     THEN (IF Len(violations) # 0 THEN Handle(violations, context, action)
                           ELSE NoDict)
                     ELSE NoDict]

\* allowed = len(violations) == 0, and the remediation of a blocked action
Decision(violations, context, action) ==
    [allowed |-> Len(violations) = 0,
     violations |-> violations,
     remediation |-> IF Len(violations) # 0 THEN Handle(violations, context, action)
                     ELSE NoDict]

\* Steps 2 to 4 of GovernanceKernel.verify on the encoded state
DecideState(state, invs, context, action) ==
    IF Raised(state) THEN Raise
    ELSE Decision(VerifierCheck(state, invs), context, action)

\* The decision of GovernanceKernel.verify under the invariant list invs
DecideUnder(invs, context, action) ==
    DecideState(Encode(context, action), invs, context, action)

\* A faulty variant: a kernel that has blocked once checks nothing more
DecideByHistory(context, action) ==
    DecideUnder(IF stats.blocked >= 1 THEN <<>> ELSE invariants, context, action)

Decide(context, action) == DecideUnder(invariants, context, action)

\* The result dict of GovernanceKernel.verify, before 'audit_id' is set
Result(d, timestamp, latency_us) ==
    [allowed |-> d.allowed,
     violations |-> d.violations,
     remediation |-> d.remediation,
     timestamp |-> timestamp,
     latency_us |-> latency_us]

\* Step 6 of GovernanceKernel.verify with the audit log enabled: the entry
\* is stamped when it is written, env.tick after the result; an exception
\* of log_verification passes through verify, the statistics already updated
Audited(K, st, L, result, audit_id, env) ==
    [kernel |-> [stats |-> st, logs |-> L.logs, previous_hash |-> L.previous_hash,
                 clock |-> K.clock + env.tick, uuid_counter |-> audit_id],
     result |-> IF Raised(result) THEN Raise ELSE result @@ [audit_id |-> audit_id]]

\* Steps 5 and 6 of GovernanceKernel.verify
Record(K, d, result, context, action, metadata, env) ==
    IF enable_audit
    THEN Audited(K, UpdateStats(K.stats, d.violations, d.allowed, env.latency_us),
                 LogVerification([logs |-> K.logs, previous_hash |-> K.previous_hash],
                                 K.uuid_counter + 1, K.clock + env.tick, context,
                                 action, result, metadata),
                 IF HashRaises(context, action, metadata) THEN Raise ELSE result,
                 K.uuid_counter + 1, env)
    ELSE [kernel |-> [K EXCEPT !.stats = UpdateStats(K.stats, d.violations, d.allowed,
                                                      env.latency_us)],
          result |-> result @@ [audit_id |-> NoAuditId]]

\* GovernanceKernel.verify once the decision d is made
VerifyDecided(K, d, context, action, metadata, env) ==
    IF Raised(d) THEN [kernel |-> K, result |-> Raise]
    ELSE Record(K, d, Result(d, K.clock, env.latency_us), context, action, metadata, env)

\* GovernanceKernel.verify on kernel K: the new kernel and the result (Raise
\* when the call raises; nothing is updated before the encoder returns).
\* env = [latency_us, tick]: the latency measured and the time that passes
\* between the two readings of the clock.
Verify(K, context, action, metadata, env) ==
    VerifyDecided(K, Decide(context, action), context, action, metadata, env)

\* The results of a batch: the first result before those of the rest
Gathered(first, rest) ==
    [kernel |-> rest.kernel,
     results |-> <<first.result>> \o rest.results,
     raised |-> rest.raised]

\* GovernanceKernel.verify_batch: verify each action in turn; a call that
\* raises ends the batch with what the earlier calls did left in place
RECURSIVE VerifyBatch(_, _, _, _)
BatchAfter(first, context, actions, envs) ==
    IF Raised(first.result)
    THEN [kernel |-> first.kernel, results |-> <<>>, raised |-> TRUE]
    ELSE Gathered(first, VerifyBatch(first.kernel, context, Tail(actions), Tail(envs)))

VerifyBatch(K, context, actions, envs) ==
    IF Len(actions) = 0 THEN [kernel |-> K, results |-> <<>>, raised |-> FALSE]
    ELSE BatchAfter(Verify(K, context, Head(actions), NoDict, Head(envs)),
                    context, actions, envs)

\* A faulty variant: only the last candidate's violations are kept
LastViolations(results) ==
    IF Len(results) = 0 THEN {} ELSE Range(results[Len(results)].violations)

\* set.update over the results
RECURSIVE AllViolations(_)
AllViolations(results) ==
    IF Len(results) = 0 THEN {}
    ELSE Range(Head(results).violations) \cup AllViolations(Tail(results))

\* A faulty variant: with no candidate there is nothing in conflict
ConflictOfSome(results, possible_actions) ==
    IF Len(results) = 0 \/ \E i \in 1..Len(results) : results[i].allowed THEN NoDict
    ELSE [type |-> "invariant_conflict",
          message |-> "No valid action exists - invariants in conflict",
          conflicting_invariants |-> AllViolations(results),
          attempted_actions |-> Len(possible_actions),
          remediation |-> "human_decision_required",
          escalation_priority |-> "high"]

\* GovernanceKernel.check_invariant_conflict, after verify_batch returned
\* results: None is NoDict; list(set) is kept as the set
ConflictOf(results, possible_actions) ==
    IF \E i \in 1..Len(results) : results[i].allowed THEN NoDict
    ELSE [type |-> "invariant_conflict",
          message |-> "No valid action exists - invariants in conflict",
          conflicting_invariants |-> AllViolations(results),
          attempted_actions |-> Len(possible_actions),
          remediation |-> "human_decision_required",
          escalation_priority |-> "high"]

\* Invariant.description of the invariant of that name
Description(name) ==
    CASE name = "AIT-1" -> "Authority Invariance - capability does not grant authority"
      [] name = "BG-1"  -> "Boundary Governance - only humans can bind reality"
      [] name = "GI-1"  -> "Gauge Invariance - optimization preserves constraints"
      [] name = "MAP-1" -> "Meaning-Authority Pairing - meaning collapse needs authority"
      [] name = "CMP-1" -> "Consequence-Memory Pairing - decisions trace to bearers"
      [] name = "EXP-1" -> "Experience-Authority Coupling - experiencers hold authority"

\* invariant.explain_violation(context, action) of the invariant of that name
ExplainViolation(name, context, action) ==
    CASE name = "AIT-1" ->
             "System has '" \o Get(context, "authority_level", "none")
             \o "' authority but action requires '"
             \o Get(action, "requires_authority", "unknown")
             \o "' authority. Capability to execute does not grant authority to execute."
      [] name = "BG-1" ->
             "Action creates binding commitment or irreversible consequence, "
             \o "but no human authority is present. Only humans can bind reality."
      [] name = "GI-1" ->
             "Action violates hard constraints: "
             \o ReprList(Get(context, "violated_constraints", <<>>))
             \o ". These constraints are invariant under optimization and "
             \o "cannot be reinterpreted or traded off."
      [] name = "MAP-1" ->
             "Action requires interpreting ambiguous meaning or policy, "
             \o "but lacks authority to make that interpretation. Meaning "
             \o "collapse requires explicit authority."
      [] name = "CMP-1" ->
             "Action makes a consequential decision but no consequence-bearer "
             \o "is identified. Every decision must trace to an entity that bears "
             \o "the consequences."
      [] name = "EXP-1" ->
             "Action affects '" \o Get(context, "affects_group", "unknown")
             \o "' but decision is made by '" \o Get(context, "decision_maker", "unknown")
             \o "'. Those who experience consequences must hold or delegate authority "
             \o "for decisions affecting them."

\* One element of explanation['details']
Detail(name, context, action) ==
    [invariant |-> name,
     description |-> Description(name),
     why_violated |-> ExplainViolation(name, context, action)]

\* A faulty variant: only the first violation is explained
RECURSIVE Details(_, _, _, _)
DetailsOfFirst(violations, invs, context, action) ==
    IF Len(violations) = 0 THEN <<>>
    ELSE <<Detail(Head(violations), context, action)>>

\* The loops of GovernanceKernel.explain: for each violation, a detail for
\* each invariant of the kernel that bears its name
Details(violations, invs, context, action) ==
    IF Len(violations) = 0 THEN <<>>
    ELSE [i \in 1..Len(SelectSeq(invs, LAMBDA name : name = Head(violations))) |->
              Detail(Head(violations), context, action)]
         \o Details(Tail(violations), invs, context, action)

\* GovernanceKernel.explain, after verify returned result
Explanation(result, invs, context, action) ==
    [decision |-> IF result.allowed THEN "ALLOWED" ELSE "BLOCKED",
     violations |-> result.violations,
     latency_us |-> result.latency_us]
    @@ (IF result.allowed THEN EmptyDict
        ELSE [details |-> Details(result.violations, invs, context, action),
              remediation |-> result.remediation])

(***************************************************************************)
(* Inputs.                                                                 *)
(***************************************************************************)
\* What the environment decides in one verification
Envs == {[latency_us |-> 2, tick |-> 0], [latency_us |-> 6, tick |-> 1]}

\* The invariants argument of the constructor: None (<<>>) or a custom list
InvariantArgs == {<<>>, <<"BG-1", "AIT-1">>}

\* Contexts, actions and metadata of the call sequences
Contexts ==
    { [authority_level |-> "advisory",
       hard_constraints |-> <<"no_residential_hazmat", "time_limit_10">>],
      [authority_level |-> "binding", consequence_bearer |-> "human_operator"] }

Actions ==
    { [type |-> "respond"],
      [type |-> "execute_trade", requires_authority |-> "binding", makes_decision |-> TRUE],
      [type |-> "select_route", estimated_time_minutes |-> 35],
      [type |-> None] }

Metadatas == {NoDict}

\* Lists of at most n elements of S
SeqsUpTo(S, n) == UNION {[1..k -> S] : k \in 0..n}

(***************************************************************************)
(* The kernel's operations, called one at a time.                          *)
(***************************************************************************)
\* The caller makes one call at a time and takes its outcome before the next
Idle == [op |-> "idle"]

\* No entry of the log was modified from outside the logger
Untouched == [index |-> 0, field |-> ""]

SetKernel(K) ==
    /\ stats' = K.stats
    /\ logs' = K.logs
    /\ previous_hash' = K.previous_hash
    /\ clock' = K.clock
    /\ uuid_counter' = K.uuid_counter

Room(n) ==
    /\ call = Idle
    /\ Len(logs) + n <= MaxLog
    /\ stats.total_verifications + n <= MaxLog

\* kernel.verify(context, action, metadata)
VerifyReturns(out, context, action) ==
    /\ SetKernel(out.kernel)
    /\ call' = [op |-> "verify", context |-> context, action |-> action,
                result |-> out.result]
    /\ UNCHANGED <<invariants, enable_audit, strict_mode, tampered, log_file, file, threads, lock>>

VerifyCall(context, action, metadata, env) ==
    VerifyReturns(Verify(Kernel, context, action, metadata, env), context, action)

\* kernel.verify_batch(context, actions)
VerifyBatchReturns(out, context, actions) ==
    /\ SetKernel(out.kernel)
    /\ call' = [op |-> "verify_batch", context |-> context, actions |-> actions,
                raised |-> out.raised, results |-> out.results]
    /\ UNCHANGED <<invariants, enable_audit, strict_mode, tampered, log_file, file, threads, lock>>

VerifyBatchCall(context, actions, envs) ==
    VerifyBatchReturns(VerifyBatch(Kernel, context, actions, envs), context, actions)

\* kernel.check_invariant_conflict(context, possible_actions)
CheckInvariantConflictReturns(out, context, possible_actions) ==
    /\ SetKernel(out.kernel)
    /\ call' = [op |-> "check_invariant_conflict", context |-> context,
                actions |-> possible_actions, raised |-> out.raised,
                conflict |-> IF out.raised THEN NoDict
                             ELSE ConflictOf(out.results, possible_actions)]
    /\ UNCHANGED <<invariants, enable_audit, strict_mode, tampered, log_file, file, threads, lock>>

CheckInvariantConflictCall(context, possible_actions, envs) ==
    CheckInvariantConflictReturns(VerifyBatch(Kernel, context, possible_actions, envs),
                                  context, possible_actions)

\* kernel.explain(context, action)
ExplainReturns(out, context, action) ==
    /\ SetKernel(out.kernel)
    /\ call' = [op |-> "explain", context |-> context, action |-> action,
                result |-> IF Raised(out.result) THEN Raise
                           ELSE Explanation(out.result, invariants, context, action)]
    /\ UNCHANGED <<invariants, enable_audit, strict_mode, tampered, log_file, file, threads, lock>>

ExplainCall(context, action, env) ==
    ExplainReturns(Verify(Kernel, context, action, NoDict, env), context, action)

\* kernel.get_stats()
GetStatsCall ==
    /\ call = Idle
    /\ call' = [op |-> "get_stats", result |-> stats]
    /\ UNCHANGED <<invariants, stats, logs, previous_hash, clock, uuid_counter, enable_audit, strict_mode,
            tampered, log_file, file, threads, lock>>

\* A faulty variant: the reset also starts the audit chain anew
ResetStatsAndChain ==
    /\ call = Idle
    /\ stats' = InitStats(invariants)
    /\ previous_hash' = NoHash
    /\ call' = [op |-> "reset_stats"]
    /\ UNCHANGED <<invariants, logs, clock, uuid_counter, enable_audit, strict_mode, tampered,
            log_file, file, threads, lock>>

\* kernel.reset_stats()
ResetStatsCall ==
    /\ call = Idle
    /\ stats' = [stats EXCEPT !.total_verifications = 0,
                              !.allowed = 0,
                              !.blocked = 0,
                              !.avg_latency_us = Fraction(0, 1),
                              !.violations_by_invariant =
                                  [name \in DOMAIN @ |->
                                      IF name \in Range(invariants) THEN 0 ELSE @[name]]]
    /\ call' = [op |-> "reset_stats"]
    /\ UNCHANGED <<invariants, logs, previous_hash, clock, uuid_counter, enable_audit, strict_mode, tampered,
            log_file, file, threads, lock>>

\* The caller takes the outcome of its call
Return ==
    /\ call # Idle
    /\ call' = Idle
    /\ UNCHANGED <<invariants, stats, logs, previous_hash, clock, uuid_counter, enable_audit, strict_mode,
            tampered, log_file, file, threads, lock>>

\* GovernanceKernel.__init__ and AuditLogger.__init__
Init ==
    /\ invariants \in {InitInvariants(arg) : arg \in InvariantArgs}
    /\ stats = InitStats(invariants)
    /\ logs = <<>>
    /\ previous_hash = NoHash
    /\ clock = 0
    /\ uuid_counter = 0
    /\ enable_audit \in BOOLEAN
    /\ strict_mode \in BOOLEAN
    /\ call = Idle
    /\ tampered = Untouched
    /\ log_file = None
    /\ file = <<>>
    /\ threads = <<>>
    /\ lock = "unused"

Next ==
    \/ /\ Room(1)
       /\ \E context \in Contexts, action \in Actions, metadata \in Metadatas, env \in Envs :
              VerifyCall(context, action, metadata, env)
    \/ /\ Room(0)
       /\ \E context \in Contexts, actions \in SeqsUpTo(Actions, MaxCand), env \in Envs :
              /\ Room(Len(actions))
              /\ VerifyBatchCall(context, actions, [i \in 1..Len(actions) |-> env])
    \/ /\ Room(0)
       /\ \E context \in Contexts, actions \in SeqsUpTo(Actions, MaxCand), env \in Envs :
              /\ Room(Len(actions))
              /\ CheckInvariantConflictCall(context, actions,
                                            [i \in 1..Len(actions) |-> env])
    \/ /\ Room(1)
       /\ \E context \in Contexts, action \in Actions, env \in Envs :
              ExplainCall(context, action, env)
    \/ GetStatsCall
    \/ ResetStatsCall
    \/ Return

Spec == Init /\ [][Next]_vars

(***************************************************************************)
(* One verification by a fresh kernel, over a wide range of inputs.        *)
(***************************************************************************)
\* The dicts that hold, of each of two, three or four optional keys, one choice
Dicts2(A, B) == {a @@ b : a \in A, b \in B}
Dicts3(A, B, C) == {a @@ b : a \in A, b \in Dicts2(B, C)}
Dicts4(A, B, C, D) == {a @@ b : a \in Dicts2(A, B), b \in Dicts2(C, D)}

AuthorityLevels == {"none", "advisory", "binding", "autonomous"}

\* Authority: every pair of levels, absent levels and levels outside the hierarchy
AuthorityInputs ==
    Opt("authority_level", AuthorityLevels \cup {"binding_decision", "Advisory"})
    \X Opt("requires_authority", AuthorityLevels \cup {"binding_decision", "unknown"})

\* Binding actions and the four signs of a human in the authority chain
BindingInputs ==
    Dicts4(Opt("consequence_bearer", {None, "human_operator", "system", "Human"}),
           Opt("decision_maker", {None, "human_board", "ai_agent"}),
           Opt("human_in_authority_chain", BOOLEAN),
           Opt("human_signature", {None, "signed"}))
    \X Dicts2(Opt("type", {None, "", "respond", "execute_trade", "Sign_Contract",
                           "redeploy"}),
              Opt("is_binding", BOOLEAN))

\* Hard constraints of each pattern, well formed or not
ConstraintLists ==
    { <<>>,
      <<"no_residential_hazmat">>,
      <<"time_limit_10">>,
      <<"no_residential_hazmat", "time_limit_10">>,
      <<"privacy">>,
      <<"privacy", "time_limit_-5">>,
      <<"time_limit_soon">>,
      <<"time_limit_">> }

ConstraintInputs ==
    Opt("hard_constraints", ConstraintLists)
    \X Dicts2(Dicts3(Opt("violates_constraints",
                         {<<>>, <<"privacy">>, <<"fairness">>, <<"privacy", "privacy">>}),
                     Opt("passes_through_residential", {TRUE}),
                     Opt("cargo_is_hazmat", {TRUE})),
              Dicts2(Opt("estimated_time_minutes", {8, 10, 11, 35}),
                     Opt("violates_privacy", BOOLEAN)))

InterpretationInputs ==
    Opt("interpretation_authority", BOOLEAN) \X Opt("makes_interpretation", BOOLEAN)

ConsequenceInputs ==
    Opt("consequence_bearer", {None, "human_operator", "system"})
    \X Opt("makes_decision", BOOLEAN)

ExperienceInputs ==
    Dicts3(Opt("affects_group", {"residents"}),
           Opt("decision_maker", {None, "ai_agent", "residents"}),
           Opt("delegated_authority_from_affected", BOOLEAN))
    \X Opt("affects_group", {"", "residents", "ai_agent"})

\* For each invariant a setting that satisfies it and one that violates it,
\* in every combination
MixedInputs ==
    Dicts3(Dicts2(Opt("authority_level", {"binding"}), Opt("human_signature", {"signed"})),
           Dicts2(Opt("hard_constraints", {<<"privacy">>}),
                  Opt("interpretation_authority", {TRUE})),
           Dicts2(Opt("consequence_bearer", {"system"}), Opt("decision_maker", {"ai_agent"})))
    \X {[type |-> "approve_loan", requires_authority |-> "binding",
         violates_privacy |-> TRUE, makes_interpretation |-> TRUE,
         makes_decision |-> TRUE, affects_group |-> "residents"]}

WideInputs ==
    AuthorityInputs \cup BindingInputs \cup ConstraintInputs \cup InterpretationInputs
    \cup ConsequenceInputs \cup ExperienceInputs \cup MixedInputs

NextVerify ==
    /\ call = Idle
    /\ Len(logs) = 0
    /\ stats.total_verifications = 0
    /\ \E input \in WideInputs, env \in Envs :
           VerifyCall(input[1], input[2], NoDict, env)

SpecVerify == Init /\ [][NextVerify]_vars

(***************************************************************************)
(* The audit chain: verifications logged through one logger, at most one   *)
(* modification of a stored entry from outside, and verify_chain.          *)
(***************************************************************************)
\* The verifications logged: context, action, metadata and environment
AuditCalls ==
    { <<[authority_level |-> "advisory", api_secret |-> "k1"], [type |-> "respond"],
        NoDict, [latency_us |-> 2, tick |-> 0]>>,
      <<[authority_level |-> "advisory"], [type |-> "execute_trade"],
        [source |-> "test"], [latency_us |-> 6, tick |-> 1]>>,
      <<[authority_level |-> "binding", consequence_bearer |-> "human_operator"],
        [type |-> "execute_trade", requires_authority |-> "autonomous"],
        NoDict, [latency_us |-> 2, tick |-> 1]>> }

\* The stored fields of an entry
Fields ==
    {"audit_id", "timestamp", "context", "action", "result.allowed", "result.violations",
     "result.remediation", "result.latency_us", "metadata", "previous_hash", "hash"}

\* entry[field]
FieldValue(entry, field) ==
    CASE field = "result.allowed" -> entry.result.allowed
      [] field = "result.violations" -> entry.result.violations
      [] field = "result.remediation" -> entry.result.remediation
      [] field = "result.latency_us" -> entry.result.latency_us
      [] OTHER -> entry[field]

\* entry[field] = value, the entry's 'hash' left as it is
WithField(entry, field, value) ==
    CASE field = "result.allowed" -> [entry EXCEPT !.result.allowed = value]
      [] field = "result.violations" -> [entry EXCEPT !.result.violations = value]
      [] field = "result.remediation" -> [entry EXCEPT !.result.remediation = value]
      [] field = "result.latency_us" -> [entry EXCEPT !.result.latency_us = value]
      [] OTHER -> [entry EXCEPT ![field] = value]

\* The values an outside writer may put in a field
Forgeries(field) ==
    CASE field \in {"audit_id", "timestamp"} -> 0..(MaxChain + 1)
      [] field = "context" -> {EmptyDict, [authority_level |-> "autonomous"]}
      [] field = "action" -> {EmptyDict, [type |-> "respond"]}
      [] field = "result.allowed" -> BOOLEAN
      [] field = "result.violations" -> {<<>>, <<"BG-1">>, <<"AIT-1">>}
      [] field = "result.remediation" -> {NoDict, [action |-> "allow"]}
      [] field = "result.latency_us" -> {2, 6, 7}
      [] field = "metadata" -> {NoDict, [source |-> "test"], [source |-> "forged"]}
      [] field \in {"previous_hash", "hash"} ->
             {NoHash, Sha256(<<>>)} \cup {logs[j].hash : j \in 1..Len(logs)}

\* An outside writer changes one field of one stored entry (the entries are
\* plain dicts of the public list AuditLogger.logs, which get_logs hands out)
Tamper(i, field, value) ==
    /\ call = Idle
    /\ tampered = Untouched
    /\ FieldValue(logs[i], field) # value
    /\ logs' = [logs EXCEPT ![i] = WithField(logs[i], field, value)]
    /\ tampered' = [index |-> i, field |-> field]
    /\ UNCHANGED <<invariants, stats, previous_hash, clock, uuid_counter, enable_audit, strict_mode, call,
            log_file, file, threads, lock>>

\* audit_logger.verify_chain()
VerifyChainCall ==
    /\ call = Idle
    /\ call' = [op |-> "verify_chain", result |-> VerifyChain(logs)]
    /\ UNCHANGED <<invariants, stats, logs, previous_hash, clock, uuid_counter, enable_audit, strict_mode,
            tampered, log_file, file, threads, lock>>

InitAudit ==
    /\ Init
    /\ invariants = default_invariants
    /\ enable_audit

NextAudit ==
    \/ /\ call = Idle
       /\ Len(logs) < MaxChain
       /\ \E c \in AuditCalls : VerifyCall(c[1], c[2], c[3], c[4])
    \/ \E i \in 1..Len(logs) : \E field \in Fields : \E value \in Forgeries(field) :
           Tamper(i, field, value)
    \/ VerifyChainCall
    \/ Return

SpecAudit == InitAudit /\ [][NextAudit]_vars

(***************************************************************************)
(* The logger on its own, with or without a log file; an append to the     *)
(* file may fail.                                                          *)
(***************************************************************************)
\* json.dumps(log_entry): the key/value pairs in the order the keys were set
JsonLine(log_entry) ==
    <<  <<"audit_id", log_entry.audit_id>>,
        <<"timestamp", log_entry.timestamp>>,
        <<"context", log_entry.context>>,
        <<"action", log_entry.action>>,
        <<"result", log_entry.result>>,
        <<"metadata", log_entry.metadata>>,
        <<"previous_hash", log_entry.previous_hash>>,
        <<"hash", log_entry.hash>>  >>

\* A faulty variant: the failure of the append is not caught
WriteToFileUncaught(lines, log_entry, write_ok) ==
    [file |-> IF write_ok THEN Append(lines, JsonLine(log_entry)) ELSE lines,
     attempts |-> 1,
     warned |-> FALSE,
     raised |-> ~write_ok]

\* AuditLogger._write_to_file: one attempt; a failure is caught and printed
WriteToFile(lines, log_entry, write_ok) ==
    [file |-> IF write_ok THEN Append(lines, JsonLine(log_entry)) ELSE lines,
     attempts |-> 1,
     warned |-> ~write_ok,
     raised |-> FALSE]

\* if self.log_file: self._write_to_file(log_entry)
WriteIfConfigured(path, lines, log_entry, write_ok) ==
    IF Truthy(path) THEN WriteToFile(lines, log_entry, write_ok)
    ELSE [file |-> lines, attempts |-> 0, warned |-> FALSE, raised |-> FALSE]

\* What the environment decides in one call of log_verification
LoggerEnvs == [tick : {0, 1}, write_ok : BOOLEAN]

\* The VerificationResult the kernel would pass for this context and action
ResultFor(context, action) == Result(Decide(context, action), clock, 2)

\* audit_logger.log_verification(context, action, result, metadata)
LogVerificationReturns(L, written, result) ==
    /\ logs' = L.logs
    /\ previous_hash' = L.previous_hash
    /\ file' = written.file
    /\ clock' = logs'[Len(logs')].timestamp
    /\ uuid_counter' = uuid_counter + 1
    /\ call' = [op |-> "log_verification",
                result |-> result,
                raised |-> written.raised,
                audit_id |-> IF written.raised THEN NoAuditId
                             ELSE logs'[Len(logs')].audit_id,
                logged_before |-> Len(logs),
                logs_before |-> logs,
                written_before |-> Len(file),
                write_attempts |-> written.attempts,
                write_failed |-> written.attempts > Len(written.file) - Len(file),
                warned |-> written.warned]
    /\ UNCHANGED <<invariants, stats, enable_audit, strict_mode, tampered, log_file, threads, lock>>

LogVerificationStored(L, result, write_ok) ==
    LogVerificationReturns(L,
                           WriteIfConfigured(log_file, file, L.logs[Len(L.logs)], write_ok),
                           result)

LogVerificationCall(context, action, result, metadata, env) ==
    /\ ~HashRaises(context, action, metadata)
    /\ LogVerificationStored(
           LogVerification([logs |-> logs, previous_hash |-> previous_hash], uuid_counter + 1,
                           clock + env.tick, context, action, result, metadata),
           result, env.write_ok)

\* audit_logger.log_verification(context, action, result, metadata) when
\* _calculate_hash raises: the id and the time were drawn, nothing is stored
LogVerificationRaises(context, action, result, metadata, env) ==
    /\ HashRaises(context, action, metadata)
    /\ clock' = clock + env.tick
    /\ uuid_counter' = uuid_counter + 1
    /\ call' = [op |-> "log_verification",
                result |-> result,
                raised |-> TRUE,
                audit_id |-> NoAuditId,
                logged_before |-> Len(logs),
                logs_before |-> logs,
                written_before |-> Len(file),
                write_attempts |-> 0,
                write_failed |-> FALSE,
                warned |-> FALSE]
    /\ UNCHANGED <<invariants, stats, logs, previous_hash, enable_audit, strict_mode, tampered,
            log_file, file, threads, lock>>

\* AuditLogger.__init__(log_file)
InitLogger ==
    /\ invariants = default_invariants
    /\ stats = InitStats(invariants)
    /\ logs = <<>>
    /\ previous_hash = NoHash
    /\ clock = 0
    /\ uuid_counter = 0
    /\ enable_audit = TRUE
    /\ strict_mode = TRUE
    /\ call = Idle
    /\ tampered = Untouched
    /\ log_file \in {None, "audit.log"}
    /\ file = <<>>
    /\ threads = <<>>
    /\ lock = "unused"

NextLogger ==
    \/ /\ call = Idle
       /\ Len(logs) < MaxChain
       /\ \E c \in AuditCalls, env \in LoggerEnvs :
              LogVerificationCall(c[1], c[2], ResultFor(c[1], c[2]), c[3], env)
    \/ VerifyChainCall
    \/ Return

SpecLogger == InitLogger /\ [][NextLogger]_vars

(***************************************************************************)
(* Verifications that carry credentials, each tagged in its metadata with  *)
(* the number of the request it was made for.                              *)
(***************************************************************************)
SecretCalls ==
    <<  <<[authority_level |-> "advisory", api_secret |-> "k1", Password |-> "p1"],
          [type |-> "respond", client_SECRET_key |-> "s1"]>>,
        <<[authority_level |-> "advisory", api_secret |-> "k2", Password |-> "p2"],
          [type |-> "respond", client_SECRET_key |-> "s2"]>>,
        <<[authority_level |-> "advisory", api_secret |-> "k1", Password |-> "p1"],
          [type |-> "execute_trade", client_SECRET_key |-> "s1"]>>,
        <<[authority_level |-> "binding", pass_word |-> "p1",
           credentials |-> [password |-> "p1"]],
          [type |-> "login", USER_PASSWORD |-> "p1", secre |-> "t"]>>,
        <<[authority_level |-> "binding", pass_word |-> "p2",
           credentials |-> [password |-> "p1"]],
          [type |-> "login", USER_PASSWORD |-> "p2", secre |-> "t"]>>  >>

NextSanitize ==
    \/ /\ call = Idle
       /\ Len(logs) < MaxChain
       /\ \E request \in DOMAIN SecretCalls, env \in Envs :
              VerifyCall(SecretCalls[request][1], SecretCalls[request][2],
                         [request |-> request], env)
    \/ VerifyChainCall
    \/ Return

SpecSanitize == InitAudit /\ [][NextSanitize]_vars

(***************************************************************************)
(* The audit chain and the caller's own objects.  An entry holds the       *)
(* values of the caller's context and action by reference (_sanitize       *)
(* copies the dict, not its values), the caller's metadata dict itself     *)
(* when it is not empty, and the violations list of the result handed      *)
(* back to the caller.  The caller passes fresh objects in every call, so  *)
(* a change it makes to one of them shows in one entry.                    *)
(***************************************************************************)
AliasCalls ==
    { <<[authority_level |-> "advisory", hard_constraints |-> <<"privacy">>],
        [type |-> "respond"], [source |-> "test"], [latency_us |-> 2, tick |-> 0]>>,
      <<[authority_level |-> "advisory", conversation_history |-> <<>>],
        [type |-> "execute_trade"], NoDict, [latency_us |-> 6, tick |-> 1]>> }

\* Keys of the context whose values are lists
ListKeys == {"hard_constraints", "conversation_history"}

\* The caller appends to a list held in the context it passed in call i
CallerAppendsToContext(i, key, item) ==
    /\ call = Idle
    /\ key \in DOMAIN logs[i].context
    /\ Len(logs[i].context[key]) < MaxList
    /\ logs' = [logs EXCEPT ![i].context[key] = Append(@, item)]
    /\ UNCHANGED <<invariants, stats, previous_hash, clock, uuid_counter, enable_audit, strict_mode, call,
            tampered, log_file, file, threads, lock>>

\* The caller sets a key of the non-empty metadata dict it passed in call i
CallerSetsMetadata(i, value) ==
    /\ call = Idle
    /\ logs[i].metadata # EmptyDict
    /\ logs[i].metadata # [source |-> value]
    /\ logs' = [logs EXCEPT ![i].metadata = [source |-> value]]
    /\ UNCHANGED <<invariants, stats, previous_hash, clock, uuid_counter, enable_audit, strict_mode, call,
            tampered, log_file, file, threads, lock>>

\* The caller appends to the violations list of the result call i returned
CallerAppendsToViolations(i, name) ==
    /\ call = Idle
    /\ Len(logs[i].result.violations) < MaxList
    /\ logs' = [logs EXCEPT ![i].result.violations = Append(@, name)]
    /\ UNCHANGED <<invariants, stats, previous_hash, clock, uuid_counter, enable_audit, strict_mode, call,
            tampered, log_file, file, threads, lock>>

NextAlias ==
    \/ /\ call = Idle
       /\ Len(logs) < MaxAlias
       /\ \E c \in AliasCalls : VerifyCall(c[1], c[2], c[3], c[4])
    \/ /\ call = Idle
       /\ Len(logs) < MaxAlias
       /\ \E c \in AliasCalls : ExplainCall(c[1], c[2], c[4])
    \/ \E i \in 1..Len(logs) : \E key \in ListKeys : CallerAppendsToContext(i, key, "added")
    \/ \E i \in 1..Len(logs) : \E value \in {"test", "edited"} : CallerSetsMetadata(i, value)
    \/ \E i \in 1..Len(logs) : CallerAppendsToViolations(i, "AIT-1")
    \/ GetStatsCall
    \/ ResetStatsCall
    \/ VerifyChainCall
    \/ Return

SpecAlias == InitAudit /\ [][NextAlias]_vars

(***************************************************************************)
(* Reading the log back: get_logs with its four filters.  An entry's       *)
(* 'timestamp' is held as the instant read from the clock; the text the    *)
(* code stores is IsoFormat of it.                                         *)
(***************************************************************************)
\* None in the place of a datetime
NoTime == 0 - 1

\* datetime.isoformat() of an instant of the clock (whole seconds)
IsoFormat(t) == "2026-01-01T00:00:0" \o Char(Digits, t + 1)

\* datetime.fromisoformat(text)
FromIsoFormat(text) == DigitsValue(SubSeq(text, Len(text) - 1, Len(text)))

LogTime(log) == FromIsoFormat(IsoFormat(log.timestamp))

\* A faulty variant: the end of the range is excluded
GetLogsBefore(entries, start_time, end_time, allowed_only, blocked_only) ==
    SelectSeq(entries,
        LAMBDA log :
            /\ start_time # NoTime => LogTime(log) >= start_time
            /\ end_time # NoTime => LogTime(log) < end_time
            /\ allowed_only => log.result.allowed
            /\ blocked_only => ~log.result.allowed)

\* if start_time: ...
AfterStart(entries, start_time) ==
    IF start_time # NoTime
    THEN SelectSeq(entries, LAMBDA log : LogTime(log) >= start_time)
    ELSE entries

\* if end_time: ...
BeforeEnd(entries, end_time) ==
    IF end_time # NoTime
    THEN SelectSeq(entries, LAMBDA log : LogTime(log) <= end_time)
    ELSE entries

\* if allowed_only: ...
AllowedOnly(entries, allowed_only) ==
    IF allowed_only THEN SelectSeq(entries, LAMBDA log : log.result.allowed) ELSE entries

\* if blocked_only: ...
BlockedOnly(entries, blocked_only) ==
    IF blocked_only THEN SelectSeq(entries, LAMBDA log : ~log.result.allowed) ELSE entries

\* AuditLogger.get_logs
GetLogs(entries, start_time, end_time, allowed_only, blocked_only) ==
    BlockedOnly(AllowedOnly(BeforeEnd(AfterStart(entries, start_time), end_time),
                            allowed_only),
                blocked_only)

\* The bounds of a time range: None, or an instant (a datetime is never falsy)
RangeBounds == {NoTime} \cup 0..MaxChain

\* audit_logger.get_logs(start_time, end_time, allowed_only, blocked_only)
GetLogsCall(start_time, end_time, allowed_only, blocked_only) ==
    /\ call = Idle
    /\ call' = [op |-> "get_logs", start_time |-> start_time, end_time |-> end_time,
                allowed_only |-> allowed_only, blocked_only |-> blocked_only,
                logs_before |-> logs, previous_hash_before |-> previous_hash,
                result |-> GetLogs(logs, start_time, end_time, allowed_only,
                                   blocked_only)]
    /\ UNCHANGED <<invariants, stats, logs, previous_hash, clock, uuid_counter, enable_audit,
            strict_mode, tampered, log_file, file, threads, lock>>

NextGetLogs ==
    \/ /\ call = Idle
       /\ Len(logs) < MaxChain
       /\ \E c \in AuditCalls : VerifyCall(c[1], c[2], c[3], c[4])
    \/ \E start_time \in RangeBounds, end_time \in RangeBounds,
          allowed_only \in BOOLEAN, blocked_only \in BOOLEAN :
           GetLogsCall(start_time, end_time, allowed_only, blocked_only)
    \/ Return

SpecGetLogs == InitAudit /\ [][NextGetLogs]_vars

(***************************************************************************)
(* One logger shared by concurrent callers.  log_verification takes no     *)
(* lock: a caller may be preempted between reading previous_hash (when it  *)
(* builds the entry), writing previous_hash and appending the entry.       *)
(* Callers either call it as it is (lock "unused") or put their own lock   *)
(* around each call ("free" or "held").                                    *)
(***************************************************************************)
NThreads == 2
Threads == 1..NThreads

\* The calls the callers make between them
MaxRace == 2

NoEntry == <<>>
Waiting == [pc |-> "idle", log_entry |-> NoEntry]

\* A faulty variant: a held lock does not keep a second caller out
AcquirableAlways(l) == TRUE

\* A caller may enter: there is no lock, or the lock is free
Acquirable(l) == l \in {"unused", "free"}

Acquired(l) == IF l = "unused" THEN "unused" ELSE "held"
Released(l) == IF l = "unused" THEN "unused" ELSE "free"

\* log_verification up to the hash of the entry: the id and the time are
\* drawn, previous_hash is read into the entry, the entry is hashed
LogBuild(t, context, action, metadata, tick) ==
    /\ threads[t].pc = "idle"
    /\ uuid_counter < MaxRace
    /\ Acquirable(lock)
    /\ lock' = Acquired(lock)
    /\ uuid_counter' = uuid_counter + 1
    /\ clock' = clock + tick
    /\ threads' = [threads EXCEPT ![t] =
           [pc |-> "built",
            log_entry |-> LogEntry(uuid_counter + 1, clock + tick, context, action,
                                   ResultFor(context, action), metadata, previous_hash)]]
    /\ UNCHANGED <<invariants, stats, logs, previous_hash, enable_audit, strict_mode, call,
            tampered, log_file, file>>

\* self.previous_hash = log_entry['hash']
LogLink(t) ==
    /\ threads[t].pc = "built"
    /\ previous_hash' = threads[t].log_entry.hash
    /\ threads' = [threads EXCEPT ![t].pc = "linked"]
    /\ UNCHANGED <<invariants, stats, logs, clock, uuid_counter, enable_audit, strict_mode,
            call, tampered, log_file, file, lock>>

\* self.logs.append(log_entry), and the return to the caller
LogAppend(t) ==
    /\ threads[t].pc = "linked"
    /\ logs' = Append(logs, threads[t].log_entry)
    /\ threads' = [threads EXCEPT ![t].pc = "done"]
    /\ lock' = Released(lock)
    /\ UNCHANGED <<invariants, stats, previous_hash, clock, uuid_counter, enable_audit,
            strict_mode, call, tampered, log_file, file>>

\* The caller goes on to its next call
LogDone(t) ==
    /\ threads[t].pc = "done"
    /\ threads' = [threads EXCEPT ![t] = Waiting]
    /\ UNCHANGED <<invariants, stats, logs, previous_hash, clock, uuid_counter, enable_audit,
            strict_mode, call, tampered, log_file, file, lock>>

\* The verifications logged: context, action, metadata and the time that passes
RaceCalls ==
    { <<[authority_level |-> "advisory"], [type |-> "respond"], NoDict, 0>>,
      <<[authority_level |-> "advisory"], [type |-> "execute_trade"], [source |-> "test"], 1>> }

InitRace ==
    /\ invariants = default_invariants
    /\ stats = InitStats(invariants)
    /\ logs = <<>>
    /\ previous_hash = NoHash
    /\ clock = 0
    /\ uuid_counter = 0
    /\ enable_audit = TRUE
    /\ strict_mode = TRUE
    /\ call = Idle
    /\ tampered = Untouched
    /\ log_file = None
    /\ file = <<>>
    /\ threads = [t \in Threads |-> Waiting]
    /\ lock \in {"unused", "free"}

NextRace ==
    \/ \E t \in Threads, c \in RaceCalls : LogBuild(t, c[1], c[2], c[3], c[4])
    \/ \E t \in Threads : LogLink(t)
    \/ \E t \in Threads : LogAppend(t)
    \/ \E t \in Threads : LogDone(t)

SpecRace == InitRace /\ [][NextRace]_vars

(***************************************************************************)
(* One kernel, built with enable_audit = False, shared by concurrent       *)
(* callers of verify.  verify takes no lock: each 'x += 1' on self.stats   *)
(* is a read followed by a write, and a caller may be preempted between    *)
(* the two.  Callers either call verify as it is (lock "unused") or put    *)
(* their own lock around each call.                                        *)
(***************************************************************************)
\* A thread outside verify, with the number of its calls that have returned
Outside(returned) ==
    [pc |-> "idle", decision |-> NoDict, pending |-> <<>>, read |-> 0,
     n |-> 0, returned |-> returned]

RECURSIVE SumOver(_, _)
SumOver(f, S) ==
    IF S = {} THEN 0
    ELSE LET t == CHOOSE x \in S : TRUE IN f[t] + SumOver(f, S \ {t})

\* The calls of verify that have returned, and those begun
Completed == SumOver([t \in Threads |-> threads[t].returned], Threads)
Begun ==
    SumOver([t \in Threads |-> threads[t].returned
                               + (IF threads[t].pc = "idle" THEN 0 ELSE 1)], Threads)

\* A faulty variant: the counter is moved by two
PlusTwo(value) == value + 2

\* x += 1, the value written after x was read
PlusOne(value) == value + 1

\* The next step of a thread that has counted its violations
AfterCounting(pending) == IF pending = <<>> THEN "total" ELSE "count"

\* verify, steps 1 and 2 up to the first counter: the state is encoded and
\* the invariants are checked (a call on which encode raises changes nothing)
VerifyBegin(t, context, action) ==
    /\ threads[t].pc = "idle"
    /\ Begun < MaxRace
    /\ Acquirable(lock)
    /\ ~Raised(Decide(context, action))
    /\ lock' = Acquired(lock)
    /\ threads' = [threads EXCEPT ![t] =
           [@ EXCEPT !.pc = AfterCounting(Decide(context, action).violations),
                     !.decision = Decide(context, action),
                     !.pending = Decide(context, action).violations]]
    /\ UNCHANGED <<invariants, stats, logs, previous_hash, clock, uuid_counter, enable_audit,
            strict_mode, call, tampered, log_file, file>>

\* self.stats['violations_by_invariant'][invariant.name] += 1: the read
ReadCount(t) ==
    /\ threads[t].pc = "count"
    /\ threads' = [threads EXCEPT ![t] =
           [@ EXCEPT !.pc = "counted",
                     !.read = stats.violations_by_invariant[Head(threads[t].pending)]]]
    /\ UNCHANGED <<invariants, stats, logs, previous_hash, clock, uuid_counter, enable_audit,
            strict_mode, call, tampered, log_file, file, lock>>

\* self.stats['violations_by_invariant'][invariant.name] += 1: the write
WriteCount(t) ==
    /\ threads[t].pc = "counted"
    /\ stats' = [stats EXCEPT !.violations_by_invariant[Head(threads[t].pending)] =
                                  PlusOne(threads[t].read)]
    /\ threads' = [threads EXCEPT ![t] =
           [@ EXCEPT !.pc = AfterCounting(Tail(threads[t].pending)),
                     !.pending = Tail(threads[t].pending)]]
    /\ UNCHANGED <<invariants, logs, previous_hash, clock, uuid_counter, enable_audit,
            strict_mode, call, tampered, log_file, file, lock>>

\* self.stats['total_verifications'] += 1: the read
ReadTotal(t) ==
    /\ threads[t].pc = "total"
    /\ threads' = [threads EXCEPT ![t] =
           [@ EXCEPT !.pc = "totalled", !.read = stats.total_verifications]]
    /\ UNCHANGED <<invariants, stats, logs, previous_hash, clock, uuid_counter, enable_audit,
            strict_mode, call, tampered, log_file, file, lock>>

\* self.stats['total_verifications'] += 1: the write
WriteTotal(t) ==
    /\ threads[t].pc = "totalled"
    /\ stats' = [stats EXCEPT !.total_verifications = PlusOne(threads[t].read)]
    /\ threads' = [threads EXCEPT ![t].pc = "outcome"]
    /\ UNCHANGED <<invariants, logs, previous_hash, clock, uuid_counter, enable_audit,
            strict_mode, call, tampered, log_file, file, lock>>

\* self.stats['allowed'] += 1 or self.stats['blocked'] += 1: the read
ReadOutcome(t) ==
    /\ threads[t].pc = "outcome"
    /\ threads' = [threads EXCEPT ![t] =
           [@ EXCEPT !.pc = "decided",
                     !.read = IF threads[t].decision.allowed THEN stats.allowed
                              ELSE stats.blocked]]
    /\ UNCHANGED <<invariants, stats, logs, previous_hash, clock, uuid_counter, enable_audit,
            strict_mode, call, tampered, log_file, file, lock>>

\* self.stats['allowed'] += 1 or self.stats['blocked'] += 1: the write
WriteOutcome(t) ==
    /\ threads[t].pc = "decided"
    /\ stats' = IF threads[t].decision.allowed
                THEN [stats EXCEPT !.allowed = PlusOne(threads[t].read)]
                ELSE [stats EXCEPT !.blocked = PlusOne(threads[t].read)]
    /\ threads' = [threads EXCEPT ![t].pc = "average"]
    /\ UNCHANGED <<invariants, logs, previous_hash, clock, uuid_counter, enable_audit,
            strict_mode, call, tampered, log_file, file, lock>>

\* n = self.stats['total_verifications']
ReadN(t) ==
    /\ threads[t].pc = "average"
    /\ threads' = [threads EXCEPT ![t] =
           [@ EXCEPT !.pc = "averaging", !.n = stats.total_verifications]]
    /\ UNCHANGED <<invariants, stats, logs, previous_hash, clock, uuid_counter, enable_audit,
            strict_mode, call, tampered, log_file, file, lock>>

\* old_avg = self.stats['avg_latency_us'], the new average written, and the
\* result returned (no audit entry: enable_audit is False)
WriteAverage(t, latency_us) ==
    /\ threads[t].pc = "averaging"
    /\ stats' = [stats EXCEPT !.avg_latency_us =
                                  RunningAverage(stats.avg_latency_us, threads[t].n,
                                                 latency_us)]
    /\ threads' = [threads EXCEPT ![t] = Outside(threads[t].returned + 1)]
    /\ lock' = Released(lock)
    /\ UNCHANGED <<invariants, logs, previous_hash, clock, uuid_counter, enable_audit,
            strict_mode, call, tampered, log_file, file>>

InitStatsRace ==
    /\ invariants = default_invariants
    /\ stats = InitStats(invariants)
    /\ logs = <<>>
    /\ previous_hash = NoHash
    /\ clock = 0
    /\ uuid_counter = 0
    /\ enable_audit = FALSE
    /\ strict_mode = TRUE
    /\ call = Idle
    /\ tampered = Untouched
    /\ log_file = None
    /\ file = <<>>
    /\ threads = [t \in Threads |-> Outside(0)]
    /\ lock \in {"unused", "free"}

NextStatsRace ==
    \/ \E t \in Threads, c \in RaceCalls : VerifyBegin(t, c[1], c[2])
    \/ \E t \in Threads : ReadCount(t)
    \/ \E t \in Threads : WriteCount(t)
    \/ \E t \in Threads : ReadTotal(t)
    \/ \E t \in Threads : WriteTotal(t)
    \/ \E t \in Threads : ReadOutcome(t)
    \/ \E t \in Threads : WriteOutcome(t)
    \/ \E t \in Threads : ReadN(t)
    \/ \E t \in Threads, latency_us \in {2, 6} : WriteAverage(t, latency_us)

SpecStatsRace == InitStatsRace /\ [][NextStatsRace]_vars

(***************************************************************************)
(* Evaluations and the audit entries they leave, on a kernel with audit    *)
(* enabled; one context carries a datetime.                                *)
(***************************************************************************)
EvalContexts ==
    { [authority_level |-> "advisory"],
      [authority_level |-> "advisory", deadline |-> 3] }

EvalActions ==
    { [type |-> "respond"],
      [type |-> "execute_trade", requires_authority |-> "binding", makes_decision |-> TRUE] }

\* Room for n more evaluations
RoomToEvaluate(n) ==
    /\ call = Idle
    /\ uuid_counter + n <= MaxLog

NextEvaluations ==
    \/ /\ RoomToEvaluate(1)
       /\ \E context \in EvalContexts, action \in EvalActions, env \in Envs :
              VerifyCall(context, action, NoDict, env)
    \/ /\ RoomToEvaluate(0)
       /\ \E context \in EvalContexts, actions \in SeqsUpTo(EvalActions, MaxCand),
             env \in Envs :
              /\ RoomToEvaluate(Len(actions))
              /\ VerifyBatchCall(context, actions, [i \in 1..Len(actions) |-> env])
    \/ /\ RoomToEvaluate(0)
       /\ \E context \in EvalContexts, actions \in SeqsUpTo(EvalActions, MaxCand),
             env \in Envs :
              /\ RoomToEvaluate(Len(actions))
              /\ CheckInvariantConflictCall(context, actions,
                                            [i \in 1..Len(actions) |-> env])
    \/ /\ RoomToEvaluate(1)
       /\ \E context \in EvalContexts, action \in EvalActions, env \in Envs :
              ExplainCall(context, action, env)
    \/ ResetStatsCall
    \/ Return

SpecEvaluations == InitAudit /\ [][NextEvaluations]_vars

(***************************************************************************)
(* The logger used by one caller at a time, on entries it can and cannot   *)
(* hash.                                                                   *)
(***************************************************************************)
ChainCalls ==
    AuditCalls \cup
    { <<[authority_level |-> "advisory", deadline |-> 3], [type |-> "respond"],
        NoDict, [latency_us |-> 2, tick |-> 1]>> }

LoggerChoices(c) == {[tick |-> c[4].tick, write_ok |-> TRUE]}

NextChain ==
    \/ /\ call = Idle
       /\ uuid_counter < MaxChain
       /\ \E c \in ChainCalls : \E env \in LoggerChoices(c) :
              LogVerificationCall(c[1], c[2], ResultFor(c[1], c[2]), c[3], env)
    \/ /\ call = Idle
       /\ uuid_counter < MaxChain
       /\ \E c \in ChainCalls : \E env \in LoggerChoices(c) :
              LogVerificationRaises(c[1], c[2], ResultFor(c[1], c[2]), c[3], env)
    \/ VerifyChainCall
    \/ Return

SpecChain == InitLogger /\ [][NextChain]_vars

(***************************************************************************)
(* The handler registry on its own, on any list of violations.             *)
(***************************************************************************)
\* The six built-in names and two names no handler is registered for
ViolationNames == Range(priority_order) \cup {"FAIR-1", "AUDIT-9"}

HandleContexts == {EmptyDict, [authority_level |-> "advisory", affects_group |-> "residents"]}
HandleActions == {EmptyDict, [type |-> "execute_trade", requires_authority |-> "binding"]}

\* handler_registry.handle(violations, context, action)
HandleCall(violations, context, action) ==
    /\ call = Idle
    /\ call' = [op |-> "handle", violations |-> violations, context |-> context,
                action |-> action, result |-> Handle(violations, context, action)]
    /\ UNCHANGED <<invariants, stats, logs, previous_hash, clock, uuid_counter, enable_audit, strict_mode,
            tampered, log_file, file, threads, lock>>

NextHandle ==
    \/ /\ call = Idle
       /\ \E violations \in SeqsUpTo(ViolationNames, MaxViol),
             context \in HandleContexts, action \in HandleActions :
              HandleCall(violations, context, action)
    \/ Return

SpecHandle == Init /\ [][NextHandle]_vars

(***************************************************************************)
(* The documented scenarios: the advisory assistant and the logistics      *)
(* stress tests, run on one kernel.                                        *)
(***************************************************************************)
\* basic_assistant.py: an advisory assistant whose response reads as a decision
AdvisoryContext == [authority_level |-> "advisory"]
DecisionResponse == [type |-> "respond", requires_authority |-> "binding_decision"]

\* test_logistics_conflict
LogisticsContext ==
    [cargo_type |-> "life_saving_medicine",
     cargo_classification |-> "chemical_hazard",
     destination |-> "city_hospital",
     time_constraint_minutes |-> 10,
     current_time |-> 0,
     patient_status |-> "critical"]

action_residential ==
    [type |-> "select_route",
     route_id |-> "route_residential",
     route_name |-> "Highway 101 (residential)",
     estimated_time_minutes |-> 8,
     passes_through_residential |-> TRUE,
     passes_through_industrial |-> FALSE]

action_industrial ==
    [type |-> "select_route",
     route_id |-> "route_industrial",
     route_name |-> "Industrial Bypass",
     estimated_time_minutes |-> 35,
     passes_through_residential |-> FALSE,
     passes_through_industrial |-> TRUE]

\* test_logistics_time_constraints and its parameters
TimeContext(time_constraint) ==
    [time_constraint_minutes |-> time_constraint, cargo_type |-> "life_saving_medicine"]

RouteAction(route_time) ==
    [type |-> "select_route",
     estimated_time_minutes |-> route_time,
     passes_through_residential |-> FALSE]

TimeParameters == {<<10, 5>>, <<10, 10>>, <<10, 11>>, <<10, 50>>}

ScenarioInputs ==
    {<<AdvisoryContext, DecisionResponse>>,
     <<LogisticsContext, action_residential>>,
     <<LogisticsContext, action_industrial>>}
    \cup {<<TimeContext(p[1]), RouteAction(p[2])>> : p \in TimeParameters}

ScenarioCandidates == {<<LogisticsContext, <<action_residential, action_industrial>>>>}

NextScenario ==
    \/ /\ Room(1)
       /\ \E input \in ScenarioInputs, env \in Envs :
              VerifyCall(input[1], input[2], NoDict, env)
    \/ /\ Room(0)
       /\ \E c \in ScenarioCandidates, env \in Envs :
              /\ Room(Len(c[2]))
              /\ CheckInvariantConflictCall(c[1], c[2], [i \in 1..Len(c[2]) |-> env])
    \/ Return

SpecScenario == Init /\ [][NextScenario]_vars

(***************************************************************************)
(* Properties.                                                             *)
(***************************************************************************)
\* The outcome of verify on the inputs of the call just made
Returned == call.op = "verify" /\ ~Raised(call.result)
EncodedOfCall == Encode(call.context, call.action)

\* C1: check_invariant_conflict returns a conflict descriptor with
\* escalation_priority 'high' and remediation 'human_decision_required' when
\* verify blocks every candidate, and returns None when verify allows at
\* least one candidate; what it returns is never one of the candidates.
C1_ConflictIffAllBlocked ==
    call.op = "check_invariant_conflict" =>
        /\ (\E i \in 1..Len(call.actions) :
                /\ ~Raised(Decide(call.context, call.actions[i]))
                /\ Decide(call.context, call.actions[i]).allowed)
           => (~call.raised /\ call.conflict = NoDict)
        /\ (\A i \in 1..Len(call.actions) :
                /\ ~Raised(Decide(call.context, call.actions[i]))
                /\ ~Decide(call.context, call.actions[i]).allowed)
           => /\ ~call.raised
              /\ call.conflict # NoDict
              /\ call.conflict.escalation_priority = "high"
              /\ call.conflict.remediation = "human_decision_required"
              /\ call.conflict \notin Range(call.actions)

\* C1, the state that refutes it: an allowed candidate stands beside one on
\* which verify raises, and the call raises instead of returning None
C1_AllowedCandidateYetRaises ==
    /\ call.op = "check_invariant_conflict"
    /\ call.raised
    /\ \E i \in 1..Len(call.actions) :
           /\ ~Raised(Decide(call.context, call.actions[i]))
           /\ Decide(call.context, call.actions[i]).allowed

\* C2: the result of verify has allowed = true exactly when its violations
\* list is empty, and that is exactly when every invariant of the kernel
\* holds of the encoded state: one violated invariant blocks.
C2_AllowedIffNoViolations ==
    Returned =>
        /\ call.result.allowed <=> call.result.violations = <<>>
        /\ call.result.allowed <=>
               \A i \in 1..Len(invariants) : InvariantCheck(invariants[i], EncodedOfCall)

C2_BlockedBySingleViolation ==
    /\ Returned
    /\ ~call.result.allowed
    /\ Len(call.result.violations) = 1
    /\ Len(invariants) = 6

\* C3: after any number of verifications logged through the logger, with no
\* modification of the log from outside, verify_chain returns true.
C3_ChainVerifies ==
    (call.op = "verify_chain" /\ tampered = Untouched) => call.result = TRUE

C3_FullChainVerified ==
    /\ call.op = "verify_chain"
    /\ tampered = Untouched
    /\ Len(logs) = MaxChain
    /\ call.result = TRUE

\* C4: once one stored field of one entry was changed to another value with
\* the entry's hash not recomputed, verify_chain returns false, whichever
\* entry (first, middle or last) and whichever field it was.
C4_TamperDetected ==
    (call.op = "verify_chain" /\ tampered # Untouched) => call.result = FALSE

C4_MiddleEntryFlipped ==
    /\ call.op = "verify_chain"
    /\ Len(logs) = 3
    /\ tampered = [index |-> 2, field |-> "result.allowed"]
    /\ call.result = FALSE

\* C5: for a non-empty violations list that holds a built-in name, handle
\* returns the remediation of the first name of BG-1 > GI-1 > CMP-1 > AIT-1 >
\* EXP-1 > MAP-1 that occurs in the list, whatever the order of the list;
\* with BG-1 and AIT-1 both in the list the remediation action is
\* 'require_human_authority'.
C5_PrimaryByFixedOrder ==
    (/\ call.op = "handle"
     /\ \E name \in {"BG-1", "GI-1", "CMP-1", "AIT-1", "EXP-1", "MAP-1"} :
            name \in Range(call.violations)) =>
        LET order == <<"BG-1", "GI-1", "CMP-1", "AIT-1", "EXP-1", "MAP-1">>
            first == CHOOSE i \in 1..6 :
                         /\ order[i] \in Range(call.violations)
                         /\ \A j \in 1..6 : order[j] \in Range(call.violations) => i <= j
        IN  /\ call.result = Dispatch(order[first], call.context, call.action,
                                      call.violations)
            /\ \A other \in [1..Len(call.violations) -> Range(call.violations)] :
                   Range(other) = Range(call.violations) =>
                       Handle(other, call.context, call.action).action = call.result.action
            /\ {"BG-1", "AIT-1"} \subseteq Range(call.violations) =>
                   call.result.action = "require_human_authority"

C5_AuthorityListedBeforeBinding ==
    /\ call.op = "handle"
    /\ Len(call.violations) = 3
    /\ call.violations[1] = "AIT-1"
    /\ call.violations[3] = "BG-1"
    /\ call.result.action = "require_human_authority"

\* C6: with the default invariants, when the encoded state is binding with
\* no human in the authority chain, verify blocks and reports BG-1; when the
\* action is not binding or a human is in the chain, BG-1 is not reported.
C6_BindingNeedsHuman ==
    (Returned /\ invariants = default_invariants) =>
        IF EncodedOfCall.is_binding_action /\ ~EncodedOfCall.human_in_authority_chain
        THEN ~call.result.allowed /\ "BG-1" \in Range(call.result.violations)
        ELSE "BG-1" \notin Range(call.result.violations)

C6_BindingBlocked ==
    /\ Returned
    /\ invariants = default_invariants
    /\ Get(call.action, "type", "") = "Sign_Contract"
    /\ "BG-1" \in Range(call.result.violations)

\* C7: with the default invariants, verify blocks and reports GI-1 exactly
\* when the context's hard constraints and the violated constraints computed
\* by the encoder have a common element.
C7_HardConstraintBlocks ==
    (Returned /\ invariants = default_invariants) =>
        IF Range(Get(call.context, "hard_constraints", <<>>))
               \cap Range(EncodedOfCall.violated_constraints) # {}
        THEN ~call.result.allowed /\ "GI-1" \in Range(call.result.violations)
        ELSE "GI-1" \notin Range(call.result.violations)

C7_HardAmongDeclared ==
    /\ Returned
    /\ invariants = default_invariants
    /\ Get(call.context, "hard_constraints", <<>>) = <<"privacy">>
    /\ EncodedOfCall.violated_constraints = <<"fairness", "privacy">>
    /\ "GI-1" \in Range(call.result.violations)

\* C8: for granted and required levels among none < advisory < binding <
\* autonomous, verify with the default invariants reports AIT-1 exactly when
\* the granted level ranks strictly below the required one.
C8_AuthorityRank ==
    LET levels == <<"none", "advisory", "binding", "autonomous">>
        rank(level) == CHOOSE i \in 1..4 : levels[i] = level
        granted == Get(call.context, "authority_level", "none")
        required == Get(call.action, "requires_authority", "none")
    IN  (/\ Returned
         /\ invariants = default_invariants
         /\ granted \in Range(levels)
         /\ required \in Range(levels)) =>
            /\ "AIT-1" \in Range(call.result.violations) <=> rank(granted) < rank(required)
            /\ AIT1_check(EncodedOfCall) <=> rank(granted) >= rank(required)

C8_EqualLevelsPass ==
    /\ Returned
    /\ invariants = default_invariants
    /\ Get(call.context, "authority_level", "none") = "binding"
    /\ Get(call.action, "requires_authority", "none") = "binding"
    /\ "AIT-1" \notin Range(call.result.violations)

\* C9: a conflict's conflicting_invariants is exactly the union of the
\* violations verify reports for the candidates, and its attempted_actions
\* is the number of candidates.
C9_ConflictUnion ==
    (/\ call.op = "check_invariant_conflict"
     /\ ~call.raised
     /\ call.conflict # NoDict) =>
        /\ call.conflict.conflicting_invariants =
               UNION {Range(Decide(call.context, call.actions[i]).violations) :
                          i \in 1..Len(call.actions)}
        /\ call.conflict.attempted_actions = Len(call.actions)

C9_TwoCandidatesDiffer ==
    /\ call.op = "check_invariant_conflict"
    /\ ~call.raised
    /\ call.conflict # NoDict
    /\ Len(call.actions) = 2
    /\ Range(Decide(call.context, call.actions[1]).violations)
           \cap Range(Decide(call.context, call.actions[2]).violations) = {}
    /\ Cardinality(call.conflict.conflicting_invariants) >= 2

\* C10: encode returns a state with all thirteen fields for every context
\* and action, and neither encode nor verify raises.
C10_EncodeTotal ==
    call.op = "verify" =>
        /\ ~Raised(Encode(call.context, call.action))
        /\ Cardinality(DOMAIN Encode(call.context, call.action)) = 13
        /\ ~Raised(call.result)

\* C10, a state that refutes it: consequence_bearer is None and verify raises
C10_NullBearerRaises ==
    /\ call.op = "verify"
    /\ "consequence_bearer" \in DOMAIN call.context
    /\ call.context["consequence_bearer"] = None
    /\ Raised(call.result)

\* C11: for the advisory assistant's context and a response classified as
\* requiring 'binding_decision' authority, verify blocks and reports AIT-1.
C11_AdvisoryAssistantBlocked ==
    (/\ Returned
     /\ invariants = default_invariants
     /\ call.context = AdvisoryContext
     /\ call.action = DecisionResponse) =>
        ~call.result.allowed /\ "AIT-1" \in Range(call.result.violations)

\* C11, the state that refutes it: the response is allowed
C11_DecisionResponseAllowed ==
    /\ Returned
    /\ invariants = default_invariants
    /\ call.context = AdvisoryContext
    /\ call.action = DecisionResponse
    /\ call.result.allowed
    /\ call.result.violations = <<>>

\* C12: in the logistics scenario verify blocks the residential route with
\* GI-1 and blocks the industrial route, and check_invariant_conflict on the
\* two routes returns a conflict of type 'invariant_conflict' that names the
\* violations of both and counts two attempted actions.
C12_LogisticsConflict ==
    (/\ invariants = default_invariants
     /\ call.op \in {"verify", "check_invariant_conflict"}
     /\ call.context = LogisticsContext) =>
        /\ (Returned /\ call.action = action_residential) =>
               ~call.result.allowed /\ "GI-1" \in Range(call.result.violations)
        /\ (Returned /\ call.action = action_industrial) => ~call.result.allowed
        /\ (/\ call.op = "check_invariant_conflict"
            /\ call.actions = <<action_residential, action_industrial>>) =>
               /\ ~call.raised
               /\ call.conflict # NoDict
               /\ call.conflict.type = "invariant_conflict"
               /\ call.conflict.attempted_actions = 2
               /\ "GI-1" \in call.conflict.conflicting_invariants

\* C12, the state that refutes it: no conflict is reported for the two routes
C12_NoConflictReported ==
    /\ invariants = default_invariants
    /\ call.op = "check_invariant_conflict"
    /\ call.context = LogisticsContext
    /\ call.actions = <<action_residential, action_industrial>>
    /\ ~call.raised
    /\ call.conflict = NoDict

\* C13: under a context that declares time_constraint_minutes = T, verify
\* allows a safe route of t minutes exactly when t <= T.
C13_TimeLimitDecides ==
    (/\ Returned
     /\ invariants = default_invariants
     /\ "time_constraint_minutes" \in DOMAIN call.context
     /\ "estimated_time_minutes" \in DOMAIN call.action
     /\ ~Get(call.action, "passes_through_residential", FALSE)) =>
        (call.result.allowed <=>
             call.action["estimated_time_minutes"] <= call.context["time_constraint_minutes"])

\* C13, the state that refutes it: a route one minute over the limit is allowed
C13_LateRouteAllowed ==
    /\ Returned
    /\ invariants = default_invariants
    /\ call.context = TimeContext(10)
    /\ call.action = RouteAction(11)
    /\ call.result.allowed

\* C14: a stored entry never changes after it was appended, whatever the
\* kernel does later and whatever the caller does to the objects it passed
\* in, so every entry still matches its hash and verify_chain returns true.
C14_EntriesImmutable ==
    /\ \A i \in 1..Len(logs) : CalculateHash(logs[i]) = logs[i].hash
    /\ call.op = "verify_chain" => call.result = TRUE

\* C14, the state that refutes it: nobody wrote to the log, the caller
\* appended to a list of its own context, and verify_chain returns false
C14_CallerAppendBreaksChain ==
    /\ call.op = "verify_chain"
    /\ tampered = Untouched
    /\ \E i \in 1..Len(logs) :
           /\ "hard_constraints" \in DOMAIN logs[i].context
           /\ logs[i].context["hard_constraints"] = <<"privacy", "added">>
    /\ call.result = FALSE

\* C15: when the append to the configured file fails, log_verification
\* raises nothing and returns the audit id of the entry, which is appended
\* to the in-memory log with previous_hash moved to its hash, so the chain
\* still verifies; the write was attempted once and the file is as it was;
\* allowed, violations and remediation are as they were passed in.
C15_WriteFailureTolerated ==
    (call.op = "log_verification" /\ call.write_failed) =>
        /\ ~call.raised
        /\ Len(logs) = call.logged_before + 1
        /\ call.audit_id = logs[Len(logs)].audit_id
        /\ call.audit_id # NoAuditId
        /\ previous_hash = logs[Len(logs)].hash
        /\ VerifyChain(logs)
        /\ call.write_attempts = 1
        /\ Len(file) = call.written_before
        /\ logs[Len(logs)].result.allowed = call.result.allowed
        /\ logs[Len(logs)].result.violations = call.result.violations
        /\ logs[Len(logs)].result.remediation = call.result.remediation

C15_SecondWriteFailed ==
    /\ call.op = "log_verification"
    /\ call.write_failed
    /\ call.warned
    /\ Len(logs) = 2
    /\ Len(file) = 1
    /\ ~call.raised

\* C16: in every stored entry, each field of the context and of the action
\* whose name contains 'password' or 'secret' in any letter case holds
\* '[REDACTED]' and every other field holds the supplied value; two
\* entries whose supplied context and action differ only in such fields
\* store the same context and action; the context and action the caller
\* passed are what they were.
SensitiveName(key) ==
    \E i \in 1..Len(key), word \in {"password", "secret"} :
        /\ i + Len(word) - 1 <= Len(key)
        /\ \A j \in 1..Len(word) : LowerChar(Char(key, i + j - 1)) = Char(word, j)

RedactedFrom(stored, supplied) ==
    /\ DOMAIN stored = DOMAIN supplied
    /\ \A key \in DOMAIN supplied :
           stored[key] = IF SensitiveName(key) THEN REDACTED ELSE supplied[key]

DifferOnlyInSensitive(d1, d2) ==
    /\ DOMAIN d1 = DOMAIN d2
    /\ \A key \in DOMAIN d1 : SensitiveName(key) \/ d1[key] = d2[key]

SuppliedTo(i) == SecretCalls[logs[i].metadata.request]

C16_SensitiveFieldsRedacted ==
    /\ \A i \in 1..Len(logs) :
           /\ RedactedFrom(logs[i].context, SuppliedTo(i)[1])
           /\ RedactedFrom(logs[i].action, SuppliedTo(i)[2])
    /\ \A i, j \in 1..Len(logs) :
           (/\ DifferOnlyInSensitive(SuppliedTo(i)[1], SuppliedTo(j)[1])
            /\ DifferOnlyInSensitive(SuppliedTo(i)[2], SuppliedTo(j)[2]))
           => /\ logs[i].context = logs[j].context
              /\ logs[i].action = logs[j].action
    /\ Returned =>
           /\ call.context = SuppliedTo(Len(logs))[1]
           /\ call.action = SuppliedTo(Len(logs))[2]

C16_TwoSecretsOneEntry ==
    /\ Len(logs) = 3
    /\ SuppliedTo(1) # SuppliedTo(2)
    /\ logs[1].context = logs[2].context
    /\ logs[1].action = logs[2].action
    /\ logs[1].context.Password = REDACTED
    /\ logs[1].action.client_SECRET_key = REDACTED
    /\ "pass_word" \in DOMAIN logs[3].context
    /\ logs[3].context.pass_word # REDACTED
    /\ logs[3].action.USER_PASSWORD = REDACTED
    /\ call.op = "verify"
    /\ call.action.USER_PASSWORD # REDACTED

\* C17: verify_batch returns one result per action, in input order, and
\* result i has the allowed flag, violations and remediation that verify
\* gives for actions[i] alone, whatever else is in the batch.
SameDecision(result, d) ==
    /\ result.allowed = d.allowed
    /\ result.violations = d.violations
    /\ result.remediation = d.remediation

C17_BatchMatchesSingle ==
    call.op = "verify_batch" =>
        \A i \in 1..Len(call.actions) :
            ~Raised(Decide(call.context, call.actions[i])) =>
                /\ ~call.raised
                /\ Len(call.results) = Len(call.actions)
                /\ SameDecision(call.results[i], Decide(call.context, call.actions[i]))

\* C17, the state that refutes it: verify alone returns a result for the
\* first action, and the batch raises on the second
C17_ResultLostToLaterElement ==
    /\ call.op = "verify_batch"
    /\ Len(call.actions) = 2
    /\ ~Raised(Decide(call.context, call.actions[1]))
    /\ Raised(Decide(call.context, call.actions[2]))
    /\ call.raised

C19_StrictModeIgnored ==
    Returned =>
        /\ call.result.violations = VerifierCheck(EncodedOfCall, invariants)
        /\ call.result.allowed <=> call.result.violations = <<>>
        /\ call.result.remediation =
               IF call.result.violations = <<>> THEN NoDict
               ELSE Handle(call.result.violations, call.context, call.action)

C19_LenientKernelBlocksOnOne ==
    /\ Returned
    /\ ~strict_mode
    /\ Len(call.result.violations) = 1
    /\ ~call.result.allowed
    /\ call.result.remediation # NoDict

\* C20: handle does not raise on names that are not built in.  When no
\* violated name is one of the six, the primary violation is the first of
\* the list and the remediation is the generic one, with action 'block' and
\* suggested action 'Review governance requirements'; when the list holds
\* built-in names and others, the primary violation is a built-in name.
BuiltInNames == {"AIT-1", "BG-1", "GI-1", "MAP-1", "CMP-1", "EXP-1"}

C20_UnknownNamesHandled ==
    (call.op = "handle" /\ call.violations # <<>>) =>
        /\ ~Raised(call.result)
        /\ Range(call.violations) \cap BuiltInNames = {} =>
               /\ PrioritizeViolations(call.violations) = call.violations[1]
               /\ call.result.action = "block"
               /\ call.result.suggested_action = "Review governance requirements"
               /\ DOMAIN call.result = {"action", "reason", "suggested_action"}
        /\ Range(call.violations) \cap BuiltInNames # {} =>
               /\ PrioritizeViolations(call.violations) \in BuiltInNames
               /\ call.result = Dispatch(PrioritizeViolations(call.violations),
                                         call.context, call.action, call.violations)
               /\ call.result.action # "block"

C20_TwoUnknownNames ==
    /\ call.op = "handle"
    /\ Len(call.violations) = 2
    /\ Range(call.violations) \cap BuiltInNames = {}
    /\ call.violations[1] # call.violations[2]
    /\ call.result.action = "block"

\* C21: explain reports 'BLOCKED' exactly when verify blocks the action;
\* when blocked, details holds one item per violation, in the order of the
\* violations list, with the invariant's name, description and explanation,
\* and the remediation is given; when allowed there are neither details nor
\* remediation.
C21_ExplainFollowsVerify ==
    (call.op = "explain" /\ ~Raised(call.result)) =>
        LET d == DecideUnder(invariants, call.context, call.action)
            e == call.result
        IN  /\ e.decision \in {"ALLOWED", "BLOCKED"}
            /\ e.decision = "BLOCKED" <=> ~d.allowed
            /\ e.violations = d.violations
            /\ d.allowed => DOMAIN e = {"decision", "violations", "latency_us"}
            /\ ~d.allowed =>
                   /\ DOMAIN e = {"decision", "violations", "latency_us", "details",
                                  "remediation"}
                   /\ e.remediation = d.remediation
                   /\ Len(e.details) = Len(d.violations)
                   /\ \A i \in 1..Len(d.violations) :
                          /\ e.details[i].invariant = d.violations[i]
                          /\ e.details[i].description = Description(d.violations[i])
                          /\ e.details[i].why_violated =
                                 ExplainViolation(d.violations[i], call.context, call.action)

C21_SeveralViolationsExplained ==
    /\ call.op = "explain"
    /\ ~Raised(call.result)
    /\ call.result.decision = "BLOCKED"
    /\ Len(call.result.details) >= 2
    /\ call.result.details[1].invariant # call.result.details[2].invariant
    /\ invariants = default_invariants

\* C22: get_logs returns, in append order, exactly the entries that pass
\* every filter given: timestamp >= start_time, timestamp <= end_time,
\* allowed_only, blocked_only; with allowed_only and blocked_only both set
\* it returns nothing; the log and previous_hash are as they were.
PassesFilters(i) ==
    /\ call.start_time # NoTime => logs[i].timestamp >= call.start_time
    /\ call.end_time # NoTime => logs[i].timestamp <= call.end_time
    /\ call.allowed_only => logs[i].result.allowed
    /\ call.blocked_only => ~logs[i].result.allowed

StatsAreZero ==
    /\ stats.total_verifications = 0
    /\ stats.allowed = 0
    /\ stats.blocked = 0
    /\ stats.avg_latency_us = Fraction(0, 1)
    /\ \A name \in DOMAIN stats.violations_by_invariant :
           stats.violations_by_invariant[name] = 0

C23_ResetOnlyTouchesStats ==
    /\ [](call.op = "reset_stats" => StatsAreZero)
    /\ [][call'.op = "reset_stats" =>
              UNCHANGED <<logs, previous_hash, invariants, clock, uuid_counter,
                          enable_audit, strict_mode>>]_vars
    /\ [](VerifyChain(logs) /\ (Len(logs) > 0 => previous_hash = logs[Len(logs)].hash))

C23_EntryLinkedAcrossReset ==
    /\ Len(logs) = 2
    /\ stats.total_verifications = 1
    /\ stats.blocked = 1
    /\ ~logs[1].result.allowed
    /\ logs[2].previous_hash = logs[1].hash
    /\ VerifyChain(logs)

\* C24: with callers that take no lock, once two calls of log_verification
\* have both read previous_hash before either has written it, the log they
\* leave holds two entries with the same previous_hash and verify_chain is
\* false; with callers that make each call under one lock, verify_chain is
\* true in every state.
BothReadBeforeEitherWrote ==
    /\ lock = "unused"
    /\ \E t, u \in Threads :
           /\ t # u
           /\ threads[t].pc = "built"
           /\ threads[u].pc = "built"
           /\ threads[t].log_entry.previous_hash = previous_hash
           /\ threads[u].log_entry.previous_hash = previous_hash

NoCallUnderWay == \A t \in Threads : threads[t].pc \in {"idle", "done"}

TwoEntriesShareAPredecessor ==
    \E i, j \in 1..Len(logs) : i # j /\ logs[i].previous_hash = logs[j].previous_hash

C24_ChainNeedsAtomicCalls ==
    /\ [](lock # "unused" => VerifyChain(logs))
    /\ [](BothReadBeforeEitherWrote =>
              [](NoCallUnderWay => (TwoEntriesShareAPredecessor /\ ~VerifyChain(logs))))

C24_RaceBreaksChain ==
    /\ lock = "unused"
    /\ NoCallUnderWay
    /\ Len(logs) = 2
    /\ logs[1].previous_hash = NoHash
    /\ logs[2].previous_hash = NoHash
    /\ ~VerifyChain(logs)

\* C25: with callers that put each verify under one lock, whenever no call
\* is under way total_verifications is the number of calls that have
\* returned and equals allowed + blocked; with callers that take no lock the
\* counters never run ahead of the calls, but an update can be lost: a state
\* is reached in which both calls have returned and total_verifications is
\* less than two.
NoVerifyUnderWay == \A t \in Threads : threads[t].pc = "idle"

C25_AtomicUpdatesAreNotLost ==
    /\ stats.total_verifications <= Begun
    /\ stats.allowed + stats.blocked <= Begun
    /\ (lock # "unused" /\ NoVerifyUnderWay) =>
           /\ stats.total_verifications = Completed
           /\ stats.total_verifications = stats.allowed + stats.blocked

C25_UpdateLost ==
    /\ lock = "unused"
    /\ NoVerifyUnderWay
    /\ Completed = 2
    /\ stats.total_verifications < Completed
    /\ stats.total_verifications # stats.allowed + stats.blocked

\* C26: the violations list of verify is what Verifier.check gives for the
\* encoded state and the kernel's invariant list: the names of exactly the
\* invariants whose check is false, each once, in the order of that list.
C26_ViolationsAsVerifier ==
    Returned =>
        /\ call.result.violations = Verifier_check(EncodedOfCall, invariants)
        /\ Range(call.result.violations) =
               {invariants[i] : i \in {j \in 1..Len(invariants) :
                                           ~InvariantCheck(invariants[j], EncodedOfCall)}}
        /\ \A i, j \in 1..Len(call.result.violations) :
               i < j => \E k, l \in 1..Len(invariants) :
                            /\ k < l
                            /\ invariants[k] = call.result.violations[i]
                            /\ invariants[l] = call.result.violations[j]
        /\ invariants = default_invariants =>
               \E at \in [1..Len(call.result.violations) -> 1..6] :
                   /\ \A k \in 1..Len(call.result.violations) :
                          call.result.violations[k] =
                              <<"AIT-1", "BG-1", "GI-1", "MAP-1", "CMP-1", "EXP-1">>[at[k]]
                   /\ \A k \in 1..(Len(call.result.violations) - 1) : at[k] < at[k + 1]

C26_ListOrderNotSeverity ==
    /\ Returned
    /\ invariants = default_invariants
    /\ Len(call.result.violations) >= 3
    /\ call.result.violations[1] = "AIT-1"
    /\ call.result.violations[2] = "BG-1"

\* C27: in every state reached by calls made one at a time,
\* total_verifications = allowed + blocked, and each per-invariant count is
\* the number of verifications since the last reset whose violations name
\* the invariant (with audit enabled these verifications are the last
\* total_verifications entries of the log).
SinceReset == {i \in 1..Len(logs) : i > Len(logs) - stats.total_verifications}

C27_CountersAgree ==
    /\ stats.total_verifications = stats.allowed + stats.blocked
    /\ DOMAIN stats.violations_by_invariant = Range(invariants)
    /\ \A name \in Range(invariants) :
           stats.violations_by_invariant[name] <= stats.blocked
    /\ enable_audit =>
           /\ stats.total_verifications <= Len(logs)
           /\ stats.blocked = Cardinality({i \in SinceReset : ~logs[i].result.allowed})
           /\ \A name \in Range(invariants) :
                  stats.violations_by_invariant[name] =
                      Cardinality({i \in SinceReset :
                                       name \in Range(logs[i].result.violations)})

C27_CountedAfterReset ==
    /\ enable_audit
    /\ Len(logs) = 2
    /\ stats.total_verifications = 1
    /\ Len(logs[1].result.violations) >= 2
    /\ Len(logs[2].result.violations) >= 2
    /\ stats.violations_by_invariant["BG-1"] = 1
    /\ stats.violations_by_invariant["AIT-1"] = 1

\* C28: with audit enabled every evaluation leaves exactly one audit entry,
\* with the allowed flag, violations and audit id of the result returned:
\* one for verify, one for explain, one per action in input order for
\* verify_batch and check_invariant_conflict; the entries number the
\* evaluations made since the kernel was built, whatever was reset.  (Each
\* evaluation draws one audit id, so uuid_counter counts them.)
EntryOfLast(n, i) == logs[Len(logs) - n + i]

EntryMatches(entry, d) ==
    /\ entry.result.allowed = d.allowed
    /\ entry.result.violations = d.violations

C28_OneEntryPerEvaluation ==
    /\ Len(logs) = uuid_counter
    /\ call.op = "verify" =>
           /\ ~Raised(call.result)
           /\ EntryMatches(EntryOfLast(1, 1), call.result)
           /\ EntryOfLast(1, 1).audit_id = call.result.audit_id
    /\ call.op = "explain" =>
           /\ ~Raised(call.result)
           /\ EntryOfLast(1, 1).result.violations = call.result.violations
    /\ call.op = "verify_batch" =>
           /\ ~call.raised
           /\ Len(call.results) = Len(call.actions)
           /\ \A i \in 1..Len(call.actions) :
                  /\ EntryMatches(EntryOfLast(Len(call.actions), i), call.results[i])
                  /\ EntryOfLast(Len(call.actions), i).audit_id = call.results[i].audit_id
    /\ call.op = "check_invariant_conflict" =>
           /\ ~call.raised
           /\ \A i \in 1..Len(call.actions) :
                  EntryMatches(EntryOfLast(Len(call.actions), i),
                               Decide(call.context, call.actions[i]))

\* C28, the state that refutes it: the action was evaluated and counted, and
\* verify raised in the logger without an entry being appended
C28_EvaluatedButNotLogged ==
    /\ call.op = "verify"
    /\ Raised(call.result)
    /\ ~Raised(Decide(call.context, call.action))
    /\ ~Decide(call.context, call.action).allowed
    /\ stats.total_verifications = 1
    /\ stats.blocked = 1
    /\ uuid_counter = 1
    /\ logs = <<>>
    /\ previous_hash = NoHash

\* C29: with one caller at a time, previous_hash is None exactly when the
\* log is empty and is otherwise the stored hash of the last entry; the
\* first entry records previous_hash None and every later entry the stored
\* hash of the entry before it; every call of log_verification lengthens the
\* log by one and leaves the earlier entries as they were.
ChainAnchored ==
    /\ previous_hash = NoHash <=> logs = <<>>
    /\ logs # <<>> => previous_hash = logs[Len(logs)].hash
    /\ \A i \in 1..Len(logs) :
           logs[i].previous_hash = IF i = 1 THEN NoHash ELSE logs[i - 1].hash

C29_ChainGrowsByOne ==
    /\ ChainAnchored
    /\ call.op = "log_verification" =>
           /\ Len(logs) = Len(call.logs_before) + 1
           /\ SubSeq(logs, 1, Len(call.logs_before)) = call.logs_before

\* C29, the state that refutes it: a call of log_verification has ended and
\* the log is no longer than before
C29_CallLeftNoEntry ==
    /\ call.op = "log_verification"
    /\ call.raised
    /\ logs = call.logs_before
    /\ Len(logs) = 1
    /\ ChainAnchored

\* C30: check_invariant_conflict with no candidates returns a conflict with
\* attempted_actions 0, no conflicting invariants and escalation_priority
\* 'high'; the call appends no audit entry and changes no counter.
NoCandidates == call.op = "check_invariant_conflict" /\ call.actions = <<>>

C30_NoCandidatesEscalates ==
    /\ [](NoCandidates =>
              /\ ~call.raised
              /\ call.conflict # NoDict
              /\ call.conflict.type = "invariant_conflict"
              /\ call.conflict.attempted_actions = 0
              /\ call.conflict.conflicting_invariants = {}
              /\ call.conflict.escalation_priority = "high"
              /\ call.conflict.remediation = "human_decision_required")
    /\ [][NoCandidates' =>
              UNCHANGED <<stats, logs, previous_hash, uuid_counter, clock>>]_vars

C30_EscalatedAfterVerifications ==
    /\ NoCandidates
    /\ call.conflict # NoDict
    /\ call.conflict.attempted_actions = 0
    /\ enable_audit
    /\ Len(logs) = 1
    /\ stats.total_verifications = 1
    /\ stats.allowed = 1

====
